---- MODULE Spec2Model ----
(***************************************************************************)
(* Playback state machine of pi-slideshow-rs (controlled mode).            *)
(*                                                                         *)
(* Tasks modelled, as spawned by run_with_mqtt_control:                    *)
(*   H  the command handler  (SlideshowController::run_command_handler)    *)
(*   P  the periodic task    (SlideshowController::run_periodic_tasks)     *)
(*   F  the frame loop       (run_slideshow_loop)                          *)
(*   R  a status reader      (http_server::get_image_list)                 *)
(* plus the environment: the transports that deliver commands, the clock   *)
(* and the termination signal.                                             *)
(*                                                                         *)
(* Time is counted in milliseconds.  An image entry is [id, order]; the    *)
(* path, url and extension fields of ImageInfo do not influence playback.  *)
(***************************************************************************)
EXTENDS Integers, Sequences, FiniteSets, TLC

\* ---------------------------------------------------------------- bounds
MaxImages == 3           \* image ids are 1..MaxImages
MaxPending == 2          \* commands waiting in the command channel
MaxDelivered == 2        \* commands delivered in one run
MaxChunks == 2
MaxFrames == 3           \* transitions of every length up to MaxFrames frames
MaxSide == 3             \* small canvases and framebuffers are up to MaxSide wide and high
MaxPushes == 2
MaxShown == 3
MaxChanges == 2          \* changes of the shared state during one status emission
MaxExtra == 2            \* commands sent beyond the channel's capacity
TickStep == 5000         \* milliseconds that pass in one clock step
MaxElapsed == 10000      \* the clock stops counting beyond this (ms)
ShortDuration == 5000    \* the two display durations a command may carry (ms)
LongDuration == 10000
ShortTransition == 500   \* the two transition durations a command may carry (ms)
LongTransition == 1000

\* ------------------------------------------------------- program constants
RedrawBackdateSecs == 10      \* run_slideshow_loop: Instant::now() - 10 s
TextCharSize == 4             \* add_transition_text: char_size
FrameMillis == 33             \* play_transition: milliseconds per frame
ChannelCapacity == 100        \* run_with_mqtt_control: broadcast::channel(100)
DefaultDisplayMs == 5000      \* get_tv_config: the default TvConfig

Ids == 1..MaxImages
Durations == {ShortDuration, LongDuration}
TransitionDurations == {ShortTransition, LongTransition}
Orientations == {"landscape", "portrait"}
Effects == {"fade", "random"}

VARIABLES
    scope,              \* which inputs the environment supplies (see Inputs)
    phase,              \* "new" | "running" | "exited"
    mqtt, couch,        \* mqtt_client / couchdb_client is Some
    state, current_index, images, config,     \* the controller's shared state
    imagesLock,         \* writer holding images' RwLock: "free" | "H" | "P"
    queue,              \* the command channel: delivery numbers of the commands
    h_pc, cur,          \* command handler: position, command being handled
    p_pc,               \* periodic task: position
    f_pc, current_orientation, elapsed,       \* frame loop; now - last_image_change
    sigPending,         \* a Shutdown event waits in the frame loop's channel
    emitted,            \* outward messages produced by the last step
    observed,           \* how the status reader's last read found the playlist
    nDelivered, applied, sinceAdvance,        \* history
    p_before,           \* the catalog replacement under way began with images
    shutdownSeen,       \* a Shutdown command has been handled
    l_pc, held, call,   \* lock view: each task's place, the lock guards it
                        \* holds, and the external call it has in flight
    fb, pushed,         \* the Framebuffer, and its last display_buffer call
    inbound,            \* the last message a transport handled, and whether
                        \* a message has been dropped
    calc,               \* the last call of a rendering function: its name,
                        \* its arguments and what it returned
    show,               \* the display loop of a run mode: its place, its
                        \* images, what it has displayed and logged, and how
                        \* it returned
    chan,               \* the command channel as a broadcast channel: what
                        \* was sent, where the handler's receiver stands,
                        \* what it applied and what it never saw
    stat                \* send_status_update read by read: the shared state,
                        \* what the emission has read so far, the instants
                        \* the shared state went through meanwhile

vars == <<scope, phase, mqtt, couch, state, current_index, images, config, imagesLock,
          queue, h_pc, cur, p_pc, f_pc, current_orientation, elapsed,
          sigPending, emitted, observed, nDelivered, applied, sinceAdvance,
          p_before, shutdownSeen, l_pc, held, call, fb, pushed, inbound, calc, show,
          chan, stat>>

\* ------------------------------------------------------------- data model
Min(a, b) == IF a <= b THEN a ELSE b

\* ImageInfo {id, order}
Entry(i, o) == [id |-> i, order |-> o]

\* the display order the update_images payloads give to image i
OrderOf(i) == i % 2

\* update_images payloads: any arrangement of distinct images
Arrangements(n) == {s \in [1..n -> 1..n] : \A a, b \in 1..n : a # b => s[a] # s[b]}

\* update_images payloads: the images 1..n in any arrangement
PayloadLists ==
    {[k \in DOMAIN s |-> Entry(s[k], OrderOf(s[k]))] :
        s \in UNION {Arrangements(n) : n \in 0..MaxImages}}

\* get_images_for_tv: documents in id order, order = position in the result
Catalogs == {[k \in 1..n |-> Entry(k, k - 1)] : n \in 0..MaxImages}

\* Vec::sort_by(|a, b| a.order.cmp(&b.order)): a stable sort
RECURSIVE InsertByOrder(_, _)
InsertByOrder(s, e) ==
    IF s = <<>> THEN <<e>>
    ELSE IF s[Len(s)].order <= e.order THEN Append(s, e)
    ELSE Append(InsertByOrder(SubSeq(s, 1, Len(s) - 1), e), s[Len(s)])

RECURSIVE SortByOrder(_)
SortByOrder(s) ==
    IF s = <<>> THEN <<>>
    ELSE InsertByOrder(SortByOrder(SubSeq(s, 1, Len(s) - 1)), s[Len(s)])

IsSorted(s) == \A a, b \in DOMAIN s : a < b => s[a].order <= s[b].order

\* Option<T> as a set: {} is None, {v} is Some(v)
Opt(S) == {{}} \cup {{v} : v \in S}
TheOne(S) == CHOOSE v \in S : TRUE

ConfigsAll == [display_duration : Durations, transition_duration : TransitionDurations,
               orientation : Orientations, transition_effect : Effects]

\* ControllerConfig as run_with_mqtt_control builds it from the arguments
InitialConfigs == {c \in ConfigsAll : c.transition_duration = ShortTransition
                                      /\ c.transition_effect = "fade"}

\* SlideshowConfig: every field optional
ConfigPayloads == [display_duration : Opt(Durations),
                   transition_duration : Opt(TransitionDurations),
                   orientation : Opt(Orientations),
                   transition_effect : Opt(Effects)]

\* TvConfig as get_tv_config returns it (the stored document's, or the default)
RemoteConfigs == [display_duration : Durations \cup {DefaultDisplayMs},
                  orientation : Orientations, transition_effect : Effects]

\* the default TvConfig of get_tv_config (document missing or unparsable)
DefaultTvConfig == [display_duration |-> DefaultDisplayMs, orientation |-> "landscape",
                    transition_effect |-> "fade"]

AllAbsent == [display_duration |-> {}, transition_duration |-> {}, orientation |-> {},
              transition_effect |-> {}]

FullCatalog == [k \in 1..MaxImages |-> Entry(k, k - 1)]
FullPayload == [k \in 1..MaxImages |-> Entry(k, OrderOf(k))]

(***************************************************************************)
(* The inputs the environment supplies.  The specifications differ in the  *)
(* part of the input space they explore, so that each stays finite and     *)
(* small:                                                                  *)
(*   "playback"  every playlist and catalog, one configuration             *)
(*   "config"    every configuration payload and remote document, playlists*)
(*               empty or full                                             *)
(*   "loop"      display durations and orientations, playlists empty or    *)
(*               full, with the clock                                      *)
(*   "locks"     no data: the tasks' lock guards and external calls        *)
(***************************************************************************)
Inputs(sc) ==
    CASE sc = "playback" ->
            [initial |-> {[display_duration |-> DefaultDisplayMs,
                           transition_duration |-> ShortTransition,
                           orientation |-> "landscape", transition_effect |-> "fade"]},
             mqtt |-> {TRUE},
             payloads |-> {AllAbsent},
             remotes |-> {DefaultTvConfig},
             lists |-> PayloadLists,
             catalogs |-> Catalogs,
             failures |-> SUBSET Ids]
      [] sc = "config" ->
            [initial |-> InitialConfigs,
             mqtt |-> {TRUE},
             payloads |-> ConfigPayloads,
             remotes |-> RemoteConfigs,
             lists |-> {<<>>, FullPayload},
             catalogs |-> {FullCatalog},
             failures |-> {{}}]
      [] sc \in {"locks", "sink", "inbound", "render", "display", "channel", "status"} ->
            [initial |-> {[display_duration |-> DefaultDisplayMs,
                           transition_duration |-> ShortTransition,
                           orientation |-> "landscape", transition_effect |-> "fade"]},
             mqtt |-> {TRUE},
             payloads |-> {AllAbsent},
             remotes |-> {DefaultTvConfig},
             lists |-> {<<>>},
             catalogs |-> {<<>>},
             failures |-> {{}}]
      [] sc = "loop" ->
            [initial |-> InitialConfigs,
             mqtt |-> BOOLEAN,
             payloads |-> {p \in ConfigPayloads :
                             p.transition_duration = {} /\ p.transition_effect = {}},
             remotes |-> {DefaultTvConfig},
             lists |-> {<<>>, FullPayload},
             catalogs |-> {FullCatalog},
             failures |-> {{}}]

\* scan_local_images: directory entries, order = position in the listing
LocalListings(sc) == Inputs(sc).catalogs \cup {<<>>}

\* what update_images found when it began: the state, and whether the playlist
\* held an image; not recorded for the other commands
NoBefore == [state |-> "Stopped", nonempty |-> FALSE]

Before(k, st, imgs) ==
    IF k = "UpdateImages" THEN [state |-> st, nonempty |-> imgs # <<>>] ELSE NoBefore

NoCommand == [kind |-> "none", seq |-> 0, payload |-> AllAbsent, before |-> NoBefore]

\* ------------------------------------------------- controller's pure parts
\* advance_to_next_image
NextIndex(i, n) == IF n # 0 THEN (i + 1) % n ELSE i

\* advance_to_previous_image
PrevIndex(i, n) == IF n # 0 THEN (IF i = 0 THEN n - 1 ELSE i - 1) ELSE i

\* update_images: "Reset current index if out of bounds"
ClampIndex(i, n) == IF i >= n /\ n # 0 THEN 0 ELSE i

\* update_images / initialize: "Update state based on image availability"
StateForCountStopped(n) == "Stopped"

StateForCount(n) == IF n = 0 THEN "Stopped" ELSE "Playing"

\* update_config: only the fields present are assigned
ApplyConfigWithoutOrientation(c, p) ==
    [display_duration |->
        IF p.display_duration = {} THEN c.display_duration ELSE TheOne(p.display_duration),
     transition_duration |->
        IF p.transition_duration = {} THEN c.transition_duration
        ELSE TheOne(p.transition_duration),
     orientation |-> c.orientation,
     transition_effect |->
        IF p.transition_effect = {} THEN c.transition_effect
        ELSE TheOne(p.transition_effect)]

ApplyConfig(c, p) ==
    [display_duration |->
        IF p.display_duration = {} THEN c.display_duration ELSE TheOne(p.display_duration),
     transition_duration |->
        IF p.transition_duration = {} THEN c.transition_duration
        ELSE TheOne(p.transition_duration),
     orientation |->
        IF p.orientation = {} THEN c.orientation ELSE TheOne(p.orientation),
     transition_effect |->
        IF p.transition_effect = {} THEN c.transition_effect
        ELSE TheOne(p.transition_effect)]

\* run_periodic_tasks / initialize: the remote document's config overwrites
\* display_duration, orientation and transition_effect
ApplyRemoteConfig(c, tv) ==
    [c EXCEPT !.display_duration = tv.display_duration,
              !.orientation = tv.orientation,
              !.transition_effect = tv.transition_effect]

\* fetch_images_from_couchdb: entries whose download failed are skipped, the
\* rest are pushed and sorted
FetchedImages(cat, failed) ==
    SortByOrder(SelectSeq(cat, LAMBDA e : e.id \notin failed))

\* send_status_update: the status string
StatusStr(st) ==
    CASE st = "Playing" -> "playing"
      [] st = "Paused" -> "paused"
      [] st = "Stopped" -> "stopped"

\* images.get(current_index).map(|img| img.id.clone())
CurrentImage(i, imgs) == IF i + 1 \in DOMAIN imgs THEN {imgs[i + 1].id} ELSE {}

\* send_status_update: TvStatus built from the three reads
Snapshot(st, i, imgs) ==
    [status |-> StatusStr(st), current_image |-> CurrentImage(i, imgs),
     total_images |-> Len(imgs), current_index |-> i]

\* send_status_update: the status goes to the status channel (whose consumer,
\* the status publisher, runs only with a connected MQTT client and publishes
\* it), to MQTT directly, and to the TV document in CouchDB
StatusMessages(snap, m, c) ==
    (IF m THEN <<[to |-> "mqtt", via |-> "status_publisher", topic |-> "status", body |-> snap],
                 [to |-> "mqtt", via |-> "publish_status", topic |-> "status", body |-> snap]>>
     ELSE <<>>)
    \o (IF c THEN <<[to |-> "couch", via |-> "update_tv_status", topic |-> "status",
                     body |-> [status |-> snap.status, current_image |-> snap.current_image]]>>
        ELSE <<>>)

\* publish_current_image_to_mqtt
CurrentImageMessages(i, imgs, m) ==
    IF m /\ CurrentImage(i, imgs) # {}
    THEN <<[to |-> "mqtt", via |-> "publish_current_image", topic |-> "image/current",
            body |-> [current_image |-> CurrentImage(i, imgs)]]>>
    ELSE <<>>

\* run_command_handler: publish_error when handle_command returned an error
ErrorMessages(m) ==
    IF m THEN <<[to |-> "mqtt", via |-> "publish_error", topic |-> "error", body |-> "error"]>>
    ELSE <<>>

\* run_command_handler: command_receiver.recv() takes the oldest command
RecvNewest(q) == [cmd |-> q[Len(q)], rest |-> SubSeq(q, 1, Len(q) - 1)]

Recv(q) == [cmd |-> Head(q), rest |-> Tail(q)]

\* should_advance_automatically
ShouldAdvance(st, el, c) == st = "Playing" /\ el >= c.display_duration


\* -------------------------------------------------------- inbound messages
\* the command names of the MQTT protocol; the HTTP control endpoint knows
\* the first six
ControlActions == {"play", "pause", "next", "previous", "reboot", "shutdown"}
CommandNames == ControlActions \cup {"update_images", "update_config"}

\* an MQTT publish: its topic (the TV's command topic or another), whether
\* the payload is UTF-8, whether it is the JSON of an MqttCommand, the command
\* name, and whether the command's payload deserialises ("-": nothing to read)
MqttMessages ==
    [via : {"mqtt"}, topic : {"command", "other"}, utf8 : {FALSE}, json : {FALSE},
     command : {"-"}, payload : {"-"}]
    \cup [via : {"mqtt"}, topic : {"command", "other"}, utf8 : {TRUE}, json : {FALSE},
          command : {"-"}, payload : {"-"}]
    \cup [via : {"mqtt"}, topic : {"command", "other"}, utf8 : {TRUE}, json : {TRUE},
          command : CommandNames \cup {"bogus"}, payload : {"ok", "bad"}]

\* a ControlRequest of the HTTP server
ControlRequests == [via : {"http"}, action : CommandNames \cup {"bogus"}]

\* the SlideshowCommand variant of a command name
KindOf(name) ==
    CASE name = "play" -> "Play"
      [] name = "pause" -> "Pause"
      [] name = "next" -> "Next"
      [] name = "previous" -> "Previous"
      [] name = "reboot" -> "Reboot"
      [] name = "shutdown" -> "Shutdown"
      [] name = "update_images" -> "UpdateImages"
      [] name = "update_config" -> "UpdateConfig"

\* what a transport's handler did: its Result, and the command it sent
Handled(res, sent) == [result |-> res, sent |-> sent]

\* MqttClient::handle_mqtt_message
handle_mqtt_messageAnyTopic(m) ==
    IF ~m.utf8 \/ ~m.json THEN Handled("Err", "none")
    ELSE IF m.command \in ControlActions THEN Handled("Ok", KindOf(m.command))
    ELSE IF m.command \in {"update_images", "update_config"}
    THEN IF m.payload = "ok" THEN Handled("Ok", KindOf(m.command))
         ELSE Handled("Err", "none")
    ELSE Handled("Ok", "none")

handle_mqtt_message(m) ==
    IF m.topic # "command" THEN Handled("Ok", "none")
    ELSE IF ~m.utf8 \/ ~m.json THEN Handled("Err", "none")
    ELSE IF m.command \in ControlActions THEN Handled("Ok", KindOf(m.command))
    ELSE IF m.command \in {"update_images", "update_config"}
    THEN IF m.payload = "ok" THEN Handled("Ok", KindOf(m.command))
         ELSE Handled("Err", "none")
    ELSE Handled("Ok", "none")

\* handle_control_request
handle_control_request(r) ==
    IF r.action \in ControlActions THEN Handled("Ok", KindOf(r.action))
    ELSE Handled("Err", "none")

\* before any message
NoInbound == [last |-> [via |-> "none"], dropped |-> FALSE]

\* ------------------------------------------------------------ device sink
\* lengths are in bytes
MAX_FRAMEBUFFER_SIZE == 1920 * 1920 * 4
CHUNK_SIZE == 4096

\* buffers handed to display_buffer: empty, one byte, whole chunks with and
\* without a tail, the largest accepted one and the smallest oversized one
BufferLens ==
    {0, 1} \cup {k * CHUNK_SIZE + d : k \in 1..MaxChunks, d \in {0, 1}}
           \cup {MAX_FRAMEBUFFER_SIZE, MAX_FRAMEBUFFER_SIZE + 1}

\* lengths of the mapping MmapMut::map_mut returns
MapLens == {0, CHUNK_SIZE, MAX_FRAMEBUFFER_SIZE}

\* what the operating system answers to Framebuffer::new: the read+write
\* open, the mapping ({}: map_mut fails, {l}: a mapping of l bytes), the
\* write-only reopen, File::create of the fallback
Devices == [open_rw : BOOLEAN, map : {{}} \cup {{l} : l \in MapLens},
            open_w : BOOLEAN, create : BOOLEAN]

\* what goes wrong in one display_buffer: nothing, the seek, a flush, or a
\* write_all (of chunk `chunk`, after `partial` bytes of it)
Faults ==
    {[op |-> o, chunk |-> 0, partial |-> 0] : o \in {"none", "seek", "flush"}}
    \cup [op : {"write"}, chunk : 1..(MaxChunks + 1), partial : {0, 1}]

\* the Framebuffer's three Option fields (mmap: {} is None, {l} a mapping of
\* l bytes)
NoSink == [file |-> FALSE, mmap |-> {}, fallback_file |-> FALSE]

\* Framebuffer::new: the sink, or the error of the `?`, and the opens tried
FramebufferNewKeepsEmptyMapping(dev) ==
    IF dev.open_rw
    THEN IF dev.map # {}
         THEN [ok |-> TRUE, tried |-> <<"open_rw", "map">>,
               sink |-> [file |-> TRUE, mmap |-> dev.map, fallback_file |-> FALSE]]
         ELSE IF dev.open_w
         THEN [ok |-> TRUE, tried |-> <<"open_rw", "map", "open_w">>,
               sink |-> [file |-> TRUE, mmap |-> {}, fallback_file |-> FALSE]]
         ELSE [ok |-> FALSE, tried |-> <<"open_rw", "map", "open_w">>, sink |-> NoSink]
    ELSE IF dev.create
         THEN [ok |-> TRUE, tried |-> <<"open_rw", "create">>,
               sink |-> [file |-> FALSE, mmap |-> {}, fallback_file |-> TRUE]]
         ELSE [ok |-> FALSE, tried |-> <<"open_rw", "create">>, sink |-> NoSink]

FramebufferNew(dev) ==
    IF dev.open_rw
    THEN IF dev.map # {} /\ dev.map # {0}
         THEN [ok |-> TRUE, tried |-> <<"open_rw", "map">>,
               sink |-> [file |-> TRUE, mmap |-> dev.map, fallback_file |-> FALSE]]
         ELSE IF dev.open_w
         THEN [ok |-> TRUE, tried |-> <<"open_rw", "map", "open_w">>,
               sink |-> [file |-> TRUE, mmap |-> {}, fallback_file |-> FALSE]]
         ELSE [ok |-> FALSE, tried |-> <<"open_rw", "map", "open_w">>, sink |-> NoSink]
    ELSE IF dev.create
         THEN [ok |-> TRUE, tried |-> <<"open_rw", "create">>,
               sink |-> [file |-> FALSE, mmap |-> {}, fallback_file |-> TRUE]]
         ELSE [ok |-> FALSE, tried |-> <<"open_rw", "create">>, sink |-> NoSink]

\* which branch of display_buffer a sink takes
Mode(s) ==
    IF s.mmap # {} THEN "MemoryMapped"
    ELSE IF s.file THEN "DirectWrite"
    ELSE IF s.fallback_file THEN "FileFallback"
    ELSE "none"

\* buffer.chunks(CHUNK_SIZE)
NumChunks(len) == (len + CHUNK_SIZE - 1) \div CHUNK_SIZE

ChunkLen(len, i) ==
    IF i * CHUNK_SIZE <= len THEN CHUNK_SIZE ELSE len - (i - 1) * CHUNK_SIZE

\* display_buffer: "let copy_len = std::cmp::min(buffer.len(), mmap.len())"
CopyLenWhole(len, mlen) == len

CopyLen(len, mlen) == Min(len, mlen)

\* the errors display_buffer returns: its own InvalidInput, whose message
\* has the two sizes, or the operating system's error passed on
InvalidInput(len, max) == [kind |-> "InvalidInput", message |-> <<len, max>>]
OsError == [kind |-> "Os", message |-> <<>>]
NoError == [kind |-> "none", message |-> <<>>]

\* one write: where it went, at which offset, how many bytes
Write(to, at, len) == [to |-> to, at |-> at, len |-> len]

\* what display_buffer reports: Ok or the error, the writes it made, the
\* offset its eprintln shows (-1: none), where the file cursor is left
Outcome(err, writes, logged, pos) ==
    [ok |-> err = NoError, error |-> err, writes |-> writes,
     logged |-> logged, pos |-> pos, flush |-> "none"]

\* mmap.flush()? / file.flush()? / fallback.flush()? after the writes of o
Flush(o, fault) ==
    IF fault.op = "flush"
    THEN [o EXCEPT !.ok = FALSE, !.error = OsError, !.flush = "failed"]
    ELSE [o EXCEPT !.flush = "ok"]

\* the mapped branch
PushMapped(s, pos, len, fault) ==
    LET copy_len == CopyLen(len, TheOne(s.mmap))
    IN  IF copy_len = 0 THEN Outcome(NoError, <<>>, -1, pos)
        ELSE Flush(Outcome(NoError,
                     <<Write("mmap", 0, copy_len)>>, -1, pos), fault)

\* the direct-write branch: seek(SeekFrom::Start(0)), then the chunks
PushDirect(pos, len, fault) ==
    IF fault.op = "seek" THEN Outcome(OsError, <<>>, -1, pos)
    ELSE LET n == NumChunks(len)
             failed == IF fault.op = "write" /\ fault.chunk <= n THEN fault.chunk ELSE 0
             m == IF failed > 0 THEN failed - 1 ELSE n
             whole == [i \in 1..m |->
                         Write("file", (i - 1) * CHUNK_SIZE, ChunkLen(len, i))]
             bytes_written == IF m = 0 THEN 0
                              ELSE (m - 1) * CHUNK_SIZE + ChunkLen(len, m)
             part == IF failed > 0 THEN Min(fault.partial, ChunkLen(len, failed)) ELSE 0
             writes == IF part > 0
                       THEN Append(whole, Write("file", bytes_written, part))
                       ELSE whole
         IN  IF failed > 0
             THEN Outcome(OsError, writes, bytes_written, bytes_written + part)
             ELSE Flush(Outcome(NoError,
                          writes, -1, bytes_written), fault)

\* the fallback branch: the BufWriter goes on where the last push ended
PushFallbackUnflushed(pos, len, fault) ==
    IF fault.op = "write" /\ len > 0
    THEN LET part == Min(fault.partial, len)
         IN  Outcome(OsError,
                     IF part > 0 THEN <<Write("fallback", pos, part)>> ELSE <<>>,
                     -1, pos + part)
    ELSE Outcome(NoError,
                 IF len > 0 THEN <<Write("fallback", pos, len)>> ELSE <<>>,
                 -1, pos + len)

PushFallback(pos, len, fault) ==
    IF fault.op = "write" /\ len > 0
    THEN LET part == Min(fault.partial, len)
         IN  Outcome(OsError,
                     IF part > 0 THEN <<Write("fallback", pos, part)>> ELSE <<>>,
                     -1, pos + part)
    ELSE Flush(Outcome(NoError,
                 IF len > 0 THEN <<Write("fallback", pos, len)>> ELSE <<>>,
                 -1, pos + len), fault)

\* Framebuffer::display_buffer
DisplayBuffer(s, pos, len, fault) ==
    IF len > MAX_FRAMEBUFFER_SIZE
    THEN Outcome(InvalidInput(len, MAX_FRAMEBUFFER_SIZE), <<>>, -1, pos)
    ELSE IF s.mmap # {} THEN PushMapped(s, pos, len, fault)
    ELSE IF s.file THEN PushDirect(pos, len, fault)
    ELSE IF s.fallback_file THEN PushFallback(pos, len, fault)
    ELSE Outcome(NoError, <<>>, -1, pos)

\* before Framebuffer::new, and before the first display_buffer
NoDevice == [open_rw |-> FALSE, map |-> {}, open_w |-> FALSE, create |-> FALSE]
Unopened == [status |-> "unopened", dev |-> NoDevice, sink |-> NoSink,
             tried |-> <<>>, pos |-> 0]
NoPush == [n |-> 0, len |-> 0, from |-> 0, mode |-> "none",
           out |-> Outcome(NoError, <<>>, -1, 0)]

\* ---------------------------------------------------------------- rendering
\* before any rendering call
NoCalc == [f |-> "none"]

\* a canvas is its size; its pixel at (x, y) is a test pattern whose four
\* channels differ, as <<R, G, B, A>>
Canvas(w, h) == [w |-> w, h |-> h]

CanvasPixel(c, x, y) ==
    <<(x + 1) % 256, (y + 101) % 256, (x + y + 201) % 256, (x + 2 * y + 51) % 256>>

\* image_to_bgra_buffer: Rgba([0, 0, 0, 255]) where the image has no pixel
BlackPixel == <<0, 0, 0, 255>>

\* image_to_bgra_buffer: "Convert RGBA to BGRA (keeping alpha channel)"
UnswappedBytes(pixel) == pixel

BgraBytes(pixel) == <<pixel[3], pixel[2], pixel[1], pixel[4]>>

\* image_to_bgra_buffer: the four bytes pushed for position (x, y)
PushedBytes(c, x, y) ==
    BgraBytes(IF x < c.w /\ y < c.h THEN CanvasPixel(c, x, y) ELSE BlackPixel)

\* image_to_bgra_buffer's two loops from row y on, with pixels_written =
\* written: the rows written, each with the number of its pixels
RECURSIVE ScanRows(_, _, _, _, _)
ScanRows(y, written, width, height, safe_pixels) ==
    IF y >= height THEN <<>>
    ELSE LET left == IF safe_pixels > written THEN safe_pixels - written ELSE 0
             n == Min(width, left)
             rest == IF written + n >= safe_pixels THEN <<>>
                     ELSE ScanRows(y + 1, written + n, width, height, safe_pixels)
         IN  IF n > 0 THEN <<[y |-> y, n |-> n]>> \o rest ELSE rest

RECURSIVE PixelsIn(_)
PixelsIn(rows) == IF rows = <<>> THEN 0 ELSE rows[1].n + PixelsIn(Tail(rows))

\* Framebuffer::image_to_bgra_buffer for a framebuffer of width x height: the
\* buffer as its rows (row y holds PushedBytes(image, x, y) for x < n) and
\* its length in bytes
image_to_bgra_buffer(width, height, max_buffer_size, image) ==
    LET expected_size == width * height * 4
        safe_size == Min(expected_size, max_buffer_size)
        safe_pixels == safe_size \div 4
        rows == ScanRows(0, 0, width, height, safe_pixels)
    IN  [rows |-> rows, len |-> 4 * PixelsIn(rows)]

\* f32: a positive value is mant * 2^exp with 2^23 <= mant < 2^24
MantBits == 24

\* round to nearest, ties to even: the quotient num / den as an integer
RoundHalfEven(num, den) ==
    LET q == num \div den
        r == num % den
    IN  IF 2 * r > den \/ (2 * r = den /\ q % 2 = 1) THEN q + 1 ELSE q

\* a mantissa that rounding carried to 2^24 takes the next exponent
Normal(mant, exp) ==
    IF mant = 2 ^ MantBits THEN [mant |-> 2 ^ (MantBits - 1), exp |-> exp + 1]
    ELSE [mant |-> mant, exp |-> exp]

\* the least k with num * 2^k >= low
RECURSIVE ShiftUp(_, _, _)
ShiftUp(num, low, k) == IF num * (2 ^ k) >= low THEN k ELSE ShiftUp(num, low, k + 1)

\* the least k with num / 2^k < high
RECURSIVE ShiftDown(_, _, _)
ShiftDown(num, high, k) == IF num \div (2 ^ k) < high THEN k ELSE ShiftDown(num, high, k + 1)

\* (a as f32) / (b as f32) for integers a, b that f32 holds exactly, a < 2^24 * b
F32Div(a, b) ==
    LET k == ShiftUp(a, 2 ^ (MantBits - 1) * b, 0)
        kk == IF (a * (2 ^ k)) \div b >= 2 ^ MantBits THEN k - 1 ELSE k
    IN  IF kk >= 0 THEN Normal(RoundHalfEven(a * (2 ^ kk), b), -kk)
        ELSE Normal(RoundHalfEven(a, b * (2 ^ (-kk))), -kk)

\* (n as f32) * f for an integer n that f32 holds exactly
F32Mul(n, f) ==
    LET product == n * f.mant
        k == ShiftDown(product, 2 ^ MantBits, 0)
    IN  Normal(RoundHalfEven(product, 2 ^ k), f.exp + k)

F32Less(f, g) == f.exp < g.exp \/ (f.exp = g.exp /\ f.mant < g.mant)

\* f32::min
F32Min(f, g) == IF F32Less(g, f) THEN g ELSE f

\* `as u32` of a positive f32: truncation
AsU32(f) == IF f.exp >= 0 THEN f.mant * (2 ^ f.exp) ELSE f.mant \div (2 ^ (-f.exp))

\* the scaling factor: the smaller of the two ratios
ScaleToFill(scale_x, scale_y) == IF F32Less(scale_x, scale_y) THEN scale_y ELSE scale_x
ScaleToFit(scale_x, scale_y) == F32Min(scale_x, scale_y)

\* scale_image_to_fit for an original of original_width x original_height: the
\* size of the scaled image and its place on the target canvas; a u32
\* subtraction below zero panics in a debug build and wraps in a release build
scale_image_to_fit(original_width, original_height, target_width, target_height) ==
    LET scale_x == F32Div(target_width, original_width)
        scale_y == F32Div(target_height, original_height)
        scale == ScaleToFit(scale_x, scale_y)
        scaled_width == AsU32(F32Mul(original_width, scale))
        scaled_height == AsU32(F32Mul(original_height, scale))
        underflow == scaled_width > target_width \/ scaled_height > target_height
    IN  [width |-> target_width, height |-> target_height,
         scaled_width |-> scaled_width, scaled_height |-> scaled_height,
         underflow |-> underflow,
         x_offset |-> IF underflow THEN 0 ELSE (target_width - scaled_width) \div 2,
         y_offset |-> IF underflow THEN 0 ELSE (target_height - scaled_height) \div 2]

\* load_and_scale_image: a landscape image is rotated for a portrait display,
\* then scaled and centred by the same code as scale_image_to_fit
load_and_scale_image(image_width, image_height, width, height) ==
    LET display_is_portrait == height > width
        image_is_landscape == image_width > image_height
    IN  IF display_is_portrait /\ image_is_landscape
        THEN scale_image_to_fit(image_height, image_width, width, height)
        ELSE scale_image_to_fit(image_width, image_height, width, height)

\* the pixel of a composed canvas at (x, y): of the scaled image where it was
\* copied, of the black background elsewhere
ResultPixel(result, x, y) ==
    IF /\ x >= result.x_offset /\ x < result.x_offset + result.scaled_width
       /\ y >= result.y_offset /\ y < result.y_offset + result.scaled_height
    THEN [of |-> "scaled_img",
          pixel |-> CanvasPixel(result, x - result.x_offset, y - result.y_offset)]
    ELSE [of |-> "background", pixel |-> BlackPixel]

\* the transition kinds whose frames do not depend on fastrand (Dissolve and
\* Pixelate do)
DeterministicKinds ==
    {"Fade", "SlideLeft", "SlideRight", "SlideUp", "SlideDown", "WipeLeft",
     "WipeRight", "WipeUp", "WipeDown", "CircularWipe", "DiagonalWipe", "Morph",
     "Bounce", "Elastic", "EaseIn", "EaseOut", "EaseInOut", "Accelerated"}

\* TransitionType::name: the length of the label
NameLen(kind) ==
    CASE kind = "Fade" -> 4
      [] kind = "Morph" -> 5
      [] kind = "Bounce" -> 6
      [] kind \in {"Elastic", "EaseIn", "WipeUp"} -> 7
      [] kind \in {"EaseOut", "SlideUp"} -> 8
      [] kind \in {"WipeLeft", "WipeDown"} -> 9
      [] kind \in {"SlideLeft", "SlideDown", "WipeRight"} -> 10
      [] kind \in {"SlideRight", "EaseInOut", "Accelerated"} -> 11
      [] kind \in {"CircularWipe", "DiagonalWipe"} -> 13

\* the two images of a transition: img1 shows the test pattern, img2 its
\* negative, so that they differ in every pixel
ImgPixel(img, x, y) ==
    LET px == CanvasPixel(img, x, y)
    IN  IF img = "img1" THEN px
        ELSE <<255 - px[1], 255 - px[2], 255 - px[3], 255 - px[4]>>

\* apply_easing at the two ends of a transition, t = 0 and t = 1 (Elastic's
\* middle branches, with powf and sin, are not reached there)
apply_easing(t, kind) ==
    CASE kind = "EaseIn" -> t * t
      [] kind = "EaseOut" -> 1 - (1 - t) * (1 - t)
      [] kind = "EaseInOut" ->
            IF 2 * t < 1 THEN 2 * t * t ELSE 1 - 2 * (1 - t) * (1 - t)
      [] kind = "Bounce" ->
            IF 2 * t < 1 THEN 4 * t * t * t
            ELSE LET f == 2 * t - 2 IN 1 + f * f * f + 1
      [] kind = "Elastic" -> IF t = 0 THEN 0 ELSE 1
      [] kind = "Accelerated" -> t * t * t
      [] OTHER -> t

\* apply_easing at the progress num / den of a frame, in exact arithmetic: the
\* eased progress as a fraction (Elastic only at the two ends, where the code
\* returns constants)
EasedProgress(num, den, kind) ==
    CASE kind = "EaseIn" -> [num |-> num * num, den |-> den * den]
      [] kind = "EaseOut" ->
            [num |-> den * den - (den - num) * (den - num), den |-> den * den]
      [] kind = "EaseInOut" ->
            IF 2 * num < den
            THEN [num |-> 2 * num * num, den |-> den * den]
            ELSE [num |-> den * den - 2 * (den - num) * (den - num), den |-> den * den]
      [] kind = "Bounce" ->
            IF 2 * num < den
            THEN [num |-> 4 * num * num * num, den |-> den * den * den]
            ELSE LET f == 2 * num - 2 * den
                 IN  [num |-> den * den * den + f * f * f + den * den * den,
                      den |-> den * den * den]
      [] kind = "Elastic" -> IF num = 0 THEN [num |-> 0, den |-> 1] ELSE [num |-> 1, den |-> 1]
      [] kind = "Accelerated" -> [num |-> num * num * num, den |-> den * den * den]
      [] OTHER -> [num |-> num, den |-> den]

\* `as u8` of an f32: saturating
AsU8(v) == IF v < 0 THEN 0 ELSE IF v > 255 THEN 255 ELSE v

\* blend_images_simple, one pixel
Blend(p1, p2, alpha) ==
    <<AsU8(p1[1] * (1 - alpha) + p2[1] * alpha), AsU8(p1[2] * (1 - alpha) + p2[2] * alpha),
      AsU8(p1[3] * (1 - alpha) + p2[3] * alpha), AsU8(p1[4] * (1 - alpha) + p2[4] * alpha)>>

\* slide_transition, one pixel
slide_transition(progress, width, height, dir_x, dir_y, x, y) ==
    LET offset_x == width * progress * dir_x
        offset_y == height * progress * dir_y
        img1_x == x - offset_x
        img1_y == y - offset_y
        img2_x == x - offset_x + width * dir_x
        img2_y == y - offset_y + height * dir_y
    IN  IF img2_x >= 0 /\ img2_x < width /\ img2_y >= 0 /\ img2_y < height
        THEN ImgPixel("img2", img2_x, img2_y)
        ELSE IF img1_x >= 0 /\ img1_x < width /\ img1_y >= 0 /\ img1_y < height
        THEN ImgPixel("img1", img1_x, img1_y)
        ELSE BlackPixel

\* wipe_transition, one pixel: x / width and y / height against progress
wipe_transition(progress, width, height, direction, x, y) ==
    LET should_show_img2 ==
            CASE direction = 0 -> x < progress * width
              [] direction = 1 -> x > (1 - progress) * width
              [] direction = 2 -> y > (1 - progress) * height
              [] direction = 3 -> y < progress * height
    IN  IF should_show_img2 THEN ImgPixel("img2", x, y) ELSE ImgPixel("img1", x, y)

\* circular_wipe_transition, one pixel: distance < max_radius * progress,
\* both sides squared and multiplied by 4
circular_wipe_transition(progress, width, height, x, y) ==
    IF (2 * x - width) * (2 * x - width) + (2 * y - height) * (2 * y - height)
           < (width * width + height * height) * progress * progress
    THEN ImgPixel("img2", x, y) ELSE ImgPixel("img1", x, y)

\* diagonal_wipe_transition, one pixel
diagonal_wipe_transition(progress, width, height, x, y) ==
    IF x + y < (width + height) * progress
    THEN ImgPixel("img2", x, y) ELSE ImgPixel("img1", x, y)

\* morph_transition, one pixel, at the two ends: with progress 0 the
\* distortion is 0 and img1 is read at (x, y); with progress 1 img1 is read at
\* a displaced place and its weight is 0
morph_transition(progress, width, height, x, y) ==
    LET p1 == IF progress = 0 THEN ImgPixel("img1", x, y)
              ELSE ImgPixel("img1", 0, 0)
    IN  Blend(p1, ImgPixel("img2", x, y), progress)

\* add_transition_text: the background rectangle of the label, in which the
\* text is drawn
InOverlay(kind, x, y) ==
    LET char_width == 7 * TextCharSize
        char_spacing == TextCharSize
        text_width == NameLen(kind) * (char_width + char_spacing)
        text_height == 5 * TextCharSize
        padding == TextCharSize * 2
    IN  x < text_width + padding * 2 /\ y < text_height + padding * 2

\* create_transition_frame, one pixel of the frame for progress 0 or 1: the
\* composite, and whether the label covers it
create_transition_frame(progress, kind, width, height, x, y) ==
    LET eased_progress == apply_easing(progress, kind)
        composite ==
            CASE kind = "SlideLeft" ->
                    slide_transition(eased_progress, width, height, -1, 0, x, y)
              [] kind = "SlideRight" ->
                    slide_transition(eased_progress, width, height, 1, 0, x, y)
              [] kind = "SlideUp" ->
                    slide_transition(eased_progress, width, height, 0, -1, x, y)
              [] kind = "SlideDown" ->
                    slide_transition(eased_progress, width, height, 0, 1, x, y)
              [] kind = "WipeLeft" -> wipe_transition(eased_progress, width, height, 0, x, y)
              [] kind = "WipeRight" -> wipe_transition(eased_progress, width, height, 1, x, y)
              [] kind = "WipeUp" -> wipe_transition(eased_progress, width, height, 2, x, y)
              [] kind = "WipeDown" -> wipe_transition(eased_progress, width, height, 3, x, y)
              [] kind = "CircularWipe" ->
                    circular_wipe_transition(eased_progress, width, height, x, y)
              [] kind = "DiagonalWipe" ->
                    diagonal_wipe_transition(eased_progress, width, height, x, y)
              [] kind = "Morph" -> morph_transition(eased_progress, width, height, x, y)
              [] OTHER ->
                    Blend(ImgPixel("img1", x, y), ImgPixel("img2", x, y), eased_progress)
    IN  [pixel |-> composite, label |-> InOverlay(kind, x, y)]

\* run_with_mqtt_control: broadcast::channel has been called, nothing sent
NewChannel == [pc |-> "created", mqtt |-> FALSE, sent |-> 0, next |-> 0, applied |-> 0,
               missed |-> 0]

\* SlideshowController::new, seen by send_status_update: no emission yet
NewSnap == [pc |-> "idle", by |-> "-", state |-> "Stopped", current_index |-> 0,
            images |-> <<>>, read_index |-> 0, instants |-> {}, body |-> {}]

\* no display loop has been started
NoShow == [mode |-> "none", pc |-> "none", images |-> <<>>, broken |-> {},
           current_index |-> 0, current_image_path |-> {}, pending_image_idx |-> {},
           added |-> {},
           shown |-> <<>>, logged |-> <<>>, result |-> "none", cause |-> "none"]

\* a transition's progress: the f32 quotient num / den (0 / 0 is NaN)
Progress(num, den) == [num |-> num, den |-> den]

\* ImageManager::play_transition, after the two images are loaded: whether
\* it panicked (Duration / 0), its Result, and the progress of every frame it
\* generated and handed to display_buffer; the push of frame `fail` fails
play_transition(duration_ms, fail) ==
    LET frame_count == duration_ms \div FrameMillis
    IN  IF frame_count = 0
        THEN [panic |-> TRUE, ok |-> FALSE, frame_count |-> frame_count, frames |-> <<>>]
        ELSE LET last == IF fail \in 1..frame_count THEN fail ELSE frame_count
             IN  [panic |-> FALSE, ok |-> fail \notin 1..frame_count,
                  frame_count |-> frame_count,
                  frames |-> [i \in 1..last |-> Progress(i - 1, frame_count - 1)]]

\* the startup (I: SlideshowController::initialize under its timeout) and the
\* tasks run_with_mqtt_control then leaves running: the command handler, the
\* periodic task and the frame loop
Tasks == {"I", "H", "P", "F"}

\* a task between two runs of its loop body
Idle == [prog |-> "idle", at |-> 0]

\* how the startup ends: initialize returned Ok with a CouchDB client; the
\* CouchDB connection timed out and the controller runs on local images;
\* initialize timed out and run_with_mqtt_control returned the error
Done == [prog |-> "done", at |-> 0]
LocalOnly == [prog |-> "local_only", at |-> 0]
Failed == [prog |-> "failed", at |-> 0]

\* the frame loop after it took SlideshowEvent::Shutdown: running = false, the
\* loop is left for display_exit_joke
Exited == [prog |-> "exited", at |-> 0]

\* ------------------------------------------------------------ construction
\* SlideshowController::new, and the MQTT connection attempt of
\* run_with_mqtt_control, which yields a client or is given up
InitIn(sc) ==
    /\ scope = sc
    /\ phase = "new"
    /\ mqtt \in Inputs(sc).mqtt
    /\ couch = FALSE
    /\ state = "Stopped"
    /\ current_index = 0
    /\ images = <<>>
    /\ config \in Inputs(sc).initial
    /\ imagesLock = "free"
    /\ queue = <<>>
    /\ h_pc = "recv"
    /\ cur = NoCommand
    /\ p_pc = "wait"
    /\ f_pc = "top"
    /\ current_orientation = config.orientation
    /\ elapsed = 0
    /\ sigPending = FALSE
    /\ emitted = <<>>
    /\ observed = "none"
    /\ nDelivered = 0
    /\ applied = 0
    /\ sinceAdvance = 0
    /\ p_before = FALSE
    /\ shutdownSeen = FALSE
    /\ l_pc = [t \in Tasks |-> IF t = "I" THEN [prog |-> "initialize", at |-> 1] ELSE Idle]
    /\ held = [t \in Tasks |-> {}]
    /\ call = [t \in Tasks |-> "none"]
    /\ fb = Unopened
    /\ pushed = NoPush
    /\ inbound = NoInbound
    /\ calc = NoCalc
    /\ show = NoShow
    /\ chan = NewChannel
    /\ stat = NewSnap

Init == InitIn("playback")

frameVars == <<f_pc, current_orientation, elapsed, sigPending, sinceAdvance>>
handlerVars == <<queue, h_pc, cur, nDelivered, applied, shutdownSeen>>
linkVars == <<scope, phase, mqtt, couch>>
lockVars == <<l_pc, held, call>>
sinkVars == <<fb, pushed>>
viewVars == <<lockVars, sinkVars, inbound, calc, show, chan, stat>>

\* SlideshowController::initialize, then run_slideshow_loop's start: no other
\* task of the controller runs yet
Initialize ==
    /\ phase = "new"
    /\ \E c \in BOOLEAN, local \in LocalListings(scope),
          tv \in Inputs(scope).remotes, fetched \in BOOLEAN,
          cat \in Inputs(scope).catalogs, failed \in Inputs(scope).failures :
        LET cfg == IF c THEN ApplyRemoteConfig(config, tv) ELSE config
            imgs == IF c /\ fetched THEN FetchedImages(cat, failed)
                    ELSE SortByOrder(local)
        IN  /\ couch' = c
            /\ config' = cfg
            /\ images' = imgs
            /\ state' = StateForCount(Len(imgs))
            /\ current_orientation' = cfg.orientation
    /\ phase' = "running"
    /\ emitted' = <<>>
    /\ UNCHANGED <<scope, mqtt, current_index, imagesLock, p_pc, p_before, f_pc, elapsed,
                   sigPending, sinceAdvance, observed>>
    /\ UNCHANGED handlerVars
    /\ UNCHANGED viewVars

\* ------------------------------------------------------------- environment
\* a transport (handle_mqtt_message, handle_control_request,
\* handle_config_request) sends a command on the command channel; what the
\* command is shows when the handler matches on it
Deliver ==
    /\ phase = "running"
    /\ nDelivered < MaxDelivered
    /\ Len(queue) < MaxPending
    /\ queue' = Append(queue, nDelivered + 1)
    /\ nDelivered' = nDelivered + 1
    /\ emitted' = <<>>
    /\ UNCHANGED <<state, current_index, images, config, imagesLock, h_pc, cur, applied,
                   shutdownSeen, p_pc, p_before, observed>>
    /\ UNCHANGED linkVars
    /\ UNCHANGED frameVars
    /\ UNCHANGED viewVars

\* time passes
Tick ==
    /\ phase = "running"
    /\ elapsed < MaxElapsed \/ sinceAdvance < MaxElapsed
    /\ elapsed' = Min(elapsed + TickStep, MaxElapsed)
    /\ sinceAdvance' = Min(sinceAdvance + TickStep, MaxElapsed)
    /\ emitted' = <<>>
    /\ UNCHANGED <<state, current_index, images, config, imagesLock, p_pc, p_before, observed,
                   f_pc, current_orientation, sigPending>>
    /\ UNCHANGED linkVars
    /\ UNCHANGED handlerVars
    /\ UNCHANGED viewVars

\* setup_signal_handler: the first SIGINT/SIGTERM sends SlideshowEvent::Shutdown
Signal ==
    /\ phase = "running"
    /\ ~sigPending
    /\ sigPending' = TRUE
    /\ emitted' = <<>>
    /\ UNCHANGED <<state, current_index, images, config, imagesLock, p_pc, p_before, observed,
                   f_pc, current_orientation, elapsed, sinceAdvance>>
    /\ UNCHANGED linkVars
    /\ UNCHANGED handlerVars
    /\ UNCHANGED viewVars

\* --------------------------------------------------------- command handler
\* run_command_handler receives a command, handle_command finds it to be k
HTake(k, payload, next) ==
    /\ phase = "running"
    /\ h_pc = "recv"
    /\ queue # <<>>
    /\ queue' = Recv(queue).rest
    /\ applied' = Recv(queue).cmd
    /\ cur' = [kind |-> k, seq |-> Recv(queue).cmd, payload |-> payload,
               before |-> Before(k, state, images)]
    /\ h_pc' = next
    /\ shutdownSeen' = (shutdownSeen \/ k = "Shutdown")
    /\ emitted' = <<>>
    /\ UNCHANGED <<nDelivered, p_pc, p_before, observed>>
    /\ UNCHANGED linkVars
    /\ UNCHANGED frameVars
    /\ UNCHANGED viewVars

HPlay ==
    /\ HTake("Play", AllAbsent, "status")
    /\ state' = "Playing"
    /\ UNCHANGED <<current_index, images, config, imagesLock>>

HPause ==
    /\ HTake("Pause", AllAbsent, "status")
    /\ state' = "Paused"
    /\ UNCHANGED <<current_index, images, config, imagesLock>>

HNext ==
    /\ HTake("Next", AllAbsent, "status")
    /\ imagesLock = "free"
    /\ current_index' = NextIndex(current_index, Len(images))
    /\ UNCHANGED <<state, images, config, imagesLock>>

HPrevious ==
    /\ HTake("Previous", AllAbsent, "status")
    /\ imagesLock = "free"
    /\ current_index' = PrevIndex(current_index, Len(images))
    /\ UNCHANGED <<state, images, config, imagesLock>>

\* update_images up to "*images = updated_images": the write lock is taken and
\* the new list is stored as received
HUpdateImagesBegin ==
    /\ HTake("UpdateImages", AllAbsent, "upd")
    /\ imagesLock = "free"
    /\ \E new_images \in Inputs(scope).lists : images' = new_images
    /\ imagesLock' = "H"
    /\ UNCHANGED <<state, current_index, config>>

\* update_images from images.sort_by to its return
HUpdateImagesEndKeepsPaused ==
    /\ phase = "running"
    /\ h_pc = "upd"
    /\ images' = SortByOrder(images)
    /\ current_index' = ClampIndex(current_index, Len(images))
    /\ state' = IF state = "Paused" /\ cur.before.nonempty /\ images # <<>>
                THEN "Paused" ELSE StateForCount(Len(images))
    /\ imagesLock' = "free"
    /\ h_pc' = "status"
    /\ emitted' = <<>>
    /\ UNCHANGED <<config, queue, cur, nDelivered, applied, shutdownSeen, p_pc, p_before,
                   observed>>
    /\ UNCHANGED linkVars
    /\ UNCHANGED frameVars
    /\ UNCHANGED viewVars

HUpdateImagesEnd ==
    /\ phase = "running"
    /\ h_pc = "upd"
    /\ images' = SortByOrder(images)
    /\ current_index' = ClampIndex(current_index, Len(images))
    /\ state' = StateForCount(Len(images))
    /\ imagesLock' = "free"
    /\ h_pc' = "status"
    /\ emitted' = <<>>
    /\ UNCHANGED <<config, queue, cur, nDelivered, applied, shutdownSeen, p_pc, p_before,
                   observed>>
    /\ UNCHANGED linkVars
    /\ UNCHANGED frameVars
    /\ UNCHANGED viewVars

HUpdateConfig ==
    /\ \E new_config \in Inputs(scope).payloads :
        /\ HTake("UpdateConfig", new_config, "status")
        /\ config' = ApplyConfig(config, new_config)
    /\ UNCHANGED <<state, current_index, images, imagesLock>>

\* SlideshowCommand::Reboot: "sudo reboot" is spawned and not awaited
HReboot ==
    /\ HTake("Reboot", AllAbsent, "status")
    /\ UNCHANGED <<state, current_index, images, config, imagesLock>>

\* SlideshowCommand::Reboot when the spawn fails: handle_command returns the
\* error before send_status_update, run_command_handler publishes it
HRebootFailed ==
    /\ phase = "running"
    /\ h_pc = "recv"
    /\ queue # <<>>
    /\ queue' = Recv(queue).rest
    /\ applied' = Recv(queue).cmd
    /\ emitted' = ErrorMessages(mqtt)
    /\ UNCHANGED <<state, current_index, images, config, imagesLock, h_pc, cur,
                   nDelivered, shutdownSeen, p_pc, p_before, observed>>
    /\ UNCHANGED linkVars
    /\ UNCHANGED frameVars
    /\ UNCHANGED viewVars

HShutdown ==
    /\ HTake("Shutdown", AllAbsent, "status")
    /\ state' = "Stopped"
    /\ UNCHANGED <<current_index, images, config, imagesLock>>

\* handle_command's send_status_update
HStatus ==
    /\ phase = "running"
    /\ h_pc = "status"
    /\ imagesLock = "free"
    /\ emitted' = StatusMessages(Snapshot(state, current_index, images), mqtt, couch)
    /\ h_pc' = "recv"
    /\ cur' = NoCommand
    /\ UNCHANGED <<state, current_index, images, config, imagesLock, queue, nDelivered,
                   applied, shutdownSeen, p_pc, p_before, observed>>
    /\ UNCHANGED linkVars
    /\ UNCHANGED frameVars
    /\ UNCHANGED viewVars

\* ----------------------------------------------------------- periodic task
\* run_periodic_tasks: the interval fires and the config is synced
PConfigSync ==
    /\ phase = "running"
    /\ p_pc = "wait"
    /\ IF couch
       THEN \E tv \in Inputs(scope).remotes : config' = ApplyRemoteConfig(config, tv)
       ELSE config' = config
    /\ p_pc' = "fetch"
    /\ UNCHANGED p_before
    /\ emitted' = <<>>
    /\ UNCHANGED <<state, current_index, images, imagesLock, observed>>
    /\ UNCHANGED linkVars
    /\ UNCHANGED frameVars
    /\ UNCHANGED handlerVars
    /\ UNCHANGED viewVars

\* fetch_images_from_couchdb fails: no client, or get_images_for_tv's error
PFetchFailed ==
    /\ phase = "running"
    /\ p_pc = "fetch"
    /\ p_pc' = "status"
    /\ UNCHANGED p_before
    /\ emitted' = <<>>
    /\ UNCHANGED <<state, current_index, images, config, imagesLock, observed>>
    /\ UNCHANGED linkVars
    /\ UNCHANGED frameVars
    /\ UNCHANGED handlerVars
    /\ UNCHANGED viewVars

\* fetch_images_from_couchdb got the catalog: the write lock is taken and the
\* playlist is cleared
PFetchBegin ==
    /\ phase = "running"
    /\ p_pc = "fetch"
    /\ couch
    /\ imagesLock = "free"
    /\ imagesLock' = "P"
    /\ images' = <<>>
    /\ p_pc' = "fetch_held"
    /\ p_before' = (images # <<>>)
    /\ emitted' = <<>>
    /\ UNCHANGED <<state, current_index, config, observed>>
    /\ UNCHANGED linkVars
    /\ UNCHANGED frameVars
    /\ UNCHANGED handlerVars
    /\ UNCHANGED viewVars

\* fetch_images_from_couchdb: the downloaded entries are pushed and sorted
PFetchEnd ==
    /\ phase = "running"
    /\ p_pc = "fetch_held"
    /\ \E cat \in Inputs(scope).catalogs, failed \in Inputs(scope).failures :
        images' = FetchedImages(cat, failed)
    /\ imagesLock' = "free"
    /\ p_pc' = "status"
    /\ p_before' = FALSE
    /\ emitted' = <<>>
    /\ UNCHANGED <<state, current_index, config, observed>>
    /\ UNCHANGED linkVars
    /\ UNCHANGED frameVars
    /\ UNCHANGED handlerVars
    /\ UNCHANGED viewVars

\* run_periodic_tasks' send_status_update
PStatus ==
    /\ phase = "running"
    /\ p_pc = "status"
    /\ imagesLock = "free"
    /\ emitted' = StatusMessages(Snapshot(state, current_index, images), mqtt, couch)
    /\ p_pc' = "wait"
    /\ UNCHANGED p_before
    /\ UNCHANGED <<state, current_index, images, config, imagesLock, observed>>
    /\ UNCHANGED linkVars
    /\ UNCHANGED frameVars
    /\ UNCHANGED handlerVars
    /\ UNCHANGED viewVars

\* -------------------------------------------------------------- frame loop
\* rx.recv_timeout at the end of an iteration: SlideshowEvent::Shutdown ends
\* the loop, and with it the process; a timeout or a NewImage event does not
FEventsOnShutdownCommand ==
    IF sigPending \/ shutdownSeen
    THEN /\ sigPending' = FALSE
         /\ f_pc' = "done"
         /\ phase' = "exited"
    ELSE /\ f_pc' = "top"
         /\ UNCHANGED <<sigPending, phase>>

FEvents ==
    IF sigPending
    THEN /\ sigPending' = FALSE
         /\ f_pc' = "done"
         /\ phase' = "exited"
    ELSE /\ f_pc' = "top"
         /\ UNCHANGED <<sigPending, phase>>

\* now - last_image_change as the orientation check leaves it
Backdated(el, c, co) ==
    IF c.orientation # co THEN Min(RedrawBackdateSecs * 1000, MaxElapsed) ELSE el

\* run_slideshow_loop: an iteration from the orientation check to
\* should_advance_automatically and, when no advance is due, to its end
FTop ==
    /\ phase = "running"
    /\ f_pc = "top"
    /\ current_orientation' = config.orientation
    /\ elapsed' = Backdated(elapsed, config, current_orientation)
    /\ IF ShouldAdvance(state, elapsed', config)
       THEN /\ f_pc' = "advance"
            /\ UNCHANGED <<sigPending, phase>>
       ELSE FEvents
    /\ emitted' = <<>>
    /\ UNCHANGED <<scope, mqtt, couch, state, current_index, images, config, imagesLock,
                   p_pc, p_before, observed, sinceAdvance>>
    /\ UNCHANGED handlerVars
    /\ UNCHANGED viewVars

\* the rest of an iteration in which an advance is due: advance_to_next_image,
\* last_image_change = now, publish_current_image_to_mqtt, rx.recv_timeout
FAdvance ==
    /\ phase = "running"
    /\ f_pc = "advance"
    /\ imagesLock = "free"
    /\ current_index' = NextIndex(current_index, Len(images))
    /\ elapsed' = 0
    /\ sinceAdvance' = 0
    /\ emitted' = CurrentImageMessages(current_index', images, mqtt)
    /\ FEvents
    /\ UNCHANGED <<scope, mqtt, couch, state, images, config, imagesLock, p_pc, p_before, observed,
                   current_orientation>>
    /\ UNCHANGED handlerVars
    /\ UNCHANGED viewVars

\* ------------------------------------------------------------------ reader
\* get_image_list: images.read().await.clone(); the read is classified by
\* whether a writer was in the middle of a replacement
ReaderCanReadUnlocked == TRUE

ReaderCanRead == imagesLock = "free"

ReplacementInProgress == h_pc = "upd" \/ p_pc = "fetch_held"

ReadImages ==
    /\ phase = "running"
    /\ ReaderCanRead
    /\ observed' = IF ReplacementInProgress \/ ~IsSorted(images) THEN "partial" ELSE "whole"
    /\ emitted' = <<>>
    /\ UNCHANGED <<state, current_index, images, config, imagesLock, p_pc, p_before>>
    /\ UNCHANGED linkVars
    /\ UNCHANGED frameVars
    /\ UNCHANGED handlerVars
    /\ UNCHANGED viewVars

\* ---------------------------------------------------------- specifications
\* the playback state machine: every task, every playlist
Next ==
    \/ Initialize
    \/ Deliver
    \/ Tick
    \/ Signal
    \/ HPlay
    \/ HPause
    \/ HNext
    \/ HPrevious
    \/ HUpdateImagesBegin
    \/ HUpdateImagesEnd
    \/ HUpdateConfig
    \/ HReboot
    \/ HRebootFailed
    \/ HShutdown
    \/ HStatus
    \/ PConfigSync
    \/ PFetchFailed
    \/ PFetchBegin
    \/ PFetchEnd
    \/ PStatus
    \/ FTop
    \/ FAdvance
    \/ ReadImages

Spec == Init /\ [][Next]_vars

\* configuration handling: the command handler and the periodic task under
\* every configuration payload and every remote configuration document
InitConfig == InitIn("config")

NextConfig ==
    \/ Initialize
    \/ Deliver
    \/ HPlay
    \/ HPause
    \/ HNext
    \/ HPrevious
    \/ HUpdateImagesBegin
    \/ HUpdateImagesEnd
    \/ HUpdateConfig
    \/ HReboot
    \/ HRebootFailed
    \/ HShutdown
    \/ HStatus
    \/ PConfigSync
    \/ PFetchFailed
    \/ PFetchBegin
    \/ PFetchEnd
    \/ PStatus

SpecConfig == InitConfig /\ [][NextConfig]_vars

\* the frame loop against the clock: the command handler, the frame loop and
\* the termination signal under every display duration and orientation
InitLoop == InitIn("loop")

NextLoop ==
    \/ Initialize
    \/ Deliver
    \/ Tick
    \/ Signal
    \/ HPlay
    \/ HPause
    \/ HNext
    \/ HPrevious
    \/ HUpdateImagesBegin
    \/ HUpdateImagesEnd
    \/ HUpdateConfig
    \/ HReboot
    \/ HRebootFailed
    \/ HShutdown
    \/ HStatus
    \/ FTop
    \/ FAdvance

SpecLoop == InitLoop /\ [][NextLoop]_vars

\* --------------------------------------------------------------- lock view
\* The same tasks seen as sequences of lock operations and external calls;
\* the data they move is left out.  A guard is [lock, mode]; the locks are
\* the controller's RwLocks on config, state, current_index and images.
Acq(l, m) == [op |-> "acq", lock |-> l, mode |-> m, name |-> "-"]
Rel(l) == [op |-> "rel", lock |-> l, mode |-> "-", name |-> "-"]
Call(n) == [op |-> "call", lock |-> "-", mode |-> "-", name |-> n]

\* send_status_update: the state and images guards live to the end of the
\* function, across publish_status and update_tv_status
send_status_update ==
    <<Acq("state", "r"), Acq("current_index", "r"), Rel("current_index"),
      Acq("images", "r"), Call("publish_status"),
      Acq("config", "r"), Call("update_tv_status"), Rel("config"),
      Rel("images"), Rel("state")>>

\* update_images: config and images guards are taken first and live to the
\* end, across the attachment downloads
update_images ==
    <<Acq("config", "r"), Acq("images", "w"), Call("download_image_attachment"),
      Acq("current_index", "w"), Acq("state", "w"), Rel("state"),
      Rel("current_index"), Rel("images"), Rel("config")>>

\* fetch_images_from_couchdb: the config guard lives across the catalog
\* fetch, the images guard across the attachment downloads
fetch_images_from_couchdb ==
    <<Acq("config", "r"), Call("get_images_for_tv"), Acq("images", "w"),
      Call("download_image_attachment"), Rel("images"), Rel("config")>>

\* advance_to_next_image, advance_to_previous_image
advance_to_next_image ==
    <<Acq("images", "r"), Acq("current_index", "w"), Rel("current_index"), Rel("images")>>

\* publish_current_image_to_mqtt: the images guard lives across the publish
publish_current_image_to_mqtt ==
    <<Acq("current_index", "r"), Rel("current_index"), Acq("images", "r"),
      Call("publish_current_image"), Rel("images")>>

\* run_slideshow_loop up to should_advance_automatically: get_orientation,
\* get_image_count, is_playing, config.display_duration
frame_checks ==
    <<Acq("config", "r"), Rel("config"), Acq("images", "r"), Rel("images"),
      Acq("state", "r"), Rel("state"), Acq("config", "r"), Rel("config")>>

\* run_slideshow_loop after the advance: get_current_image_path, is_playing
frame_render ==
    <<Acq("current_index", "r"), Rel("current_index"), Acq("images", "r"), Rel("images"),
      Acq("state", "r"), Rel("state")>>

\* the configuration fetch of initialize and of run_periodic_tasks: no guard
\* lives across get_tv_config
config_sync ==
    <<Acq("config", "r"), Rel("config"), Call("get_tv_config"),
      Acq("config", "w"), Rel("config")>>

\* initialize's two "state from the image count" steps
state_from_count ==
    <<Acq("images", "r"), Rel("images"), Acq("state", "w"), Rel("state")>>

\* initialize: the config guard lives across CouchDbClient::new, and in
\* register_with_management_system across get_tv_config and the registration
\* request; scan_local_images takes config and images
initialize ==
    <<Acq("config", "r"), Call("CouchDbClient::new"), Rel("config"),
      Acq("config", "r"), Call("get_tv_config"), Call("register"), Rel("config"),
      Acq("config", "r"), Acq("images", "w"), Rel("images"), Rel("config")>>
    \o state_from_count \o config_sync \o fetch_images_from_couchdb
    \o state_from_count

\* the calls the code puts under a timeout of their own: CouchDbClient::new
\* (5 s) and the registration request (10 s)
Bounded(n) == n \in {"CouchDbClient::new", "register"}

\* what a task runs from one idle point to the next
Program(name) ==
    CASE name = "initialize" -> initialize
      [] name \in {"done", "local_only", "failed", "exited"} -> <<>>
      [] name = "Play" -> <<Acq("state", "w"), Rel("state")>> \o send_status_update
      [] name = "Next" -> advance_to_next_image \o send_status_update
      [] name = "UpdateImages" -> update_images \o send_status_update
      [] name = "UpdateConfig" ->
            <<Acq("config", "w"), Rel("config")>> \o send_status_update
      [] name = "run_periodic_tasks" ->
            config_sync \o fetch_images_from_couchdb \o send_status_update
      [] name = "frame" -> frame_checks \o frame_render
      [] name = "frame_advance" ->
            frame_checks \o advance_to_next_image \o publish_current_image_to_mqtt
            \o frame_render
      [] name = "idle" -> <<>>

ProgramsOf(t) ==
    CASE t = "I" -> {}
      [] t = "H" -> {"Play", "Next", "UpdateImages", "UpdateConfig"}
      [] t = "P" -> {"run_periodic_tasks"}
      [] t = "F" -> {"frame", "frame_advance"}

\* the instruction task t stands at
Instr(t) ==
    IF l_pc[t].at \in DOMAIN Program(l_pc[t].prog)
    THEN Program(l_pc[t].prog)[l_pc[t].at]
    ELSE [op |-> "end", lock |-> "-", mode |-> "-", name |-> "-"]

\* tokio::sync::RwLock: any number of readers or one writer
CanAcquire(t, l, m) ==
    \A u \in Tasks \ {t} : \A g \in held[u] :
        g.lock = l => (m = "r" /\ g.mode = "r")

Step(t) == [l_pc EXCEPT ![t].at = @ + 1]

coreVars == <<scope, phase, mqtt, couch, state, current_index, images, config, imagesLock,
              queue, h_pc, cur, p_pc, f_pc, current_orientation, elapsed,
              sigPending, emitted, observed, nDelivered, applied, sinceAdvance,
              p_before, shutdownSeen, fb, pushed, inbound, calc, show, chan,
              stat>>

\* the task leaves its idle point: a command arrives, the interval fires, the
\* frame loop starts an iteration
LStart(t) ==
    /\ l_pc["I"] = Done
    /\ l_pc[t] = Idle
    /\ \E name \in ProgramsOf(t) : l_pc' = [l_pc EXCEPT ![t] = [prog |-> name, at |-> 1]]
    /\ UNCHANGED <<held, call>>
    /\ UNCHANGED coreVars

\* lock.read().await / lock.write().await returns
LAcquire(t) ==
    /\ Instr(t).op = "acq"
    /\ CanAcquire(t, Instr(t).lock, Instr(t).mode)
    /\ held' = [held EXCEPT ![t] = @ \cup {[lock |-> Instr(t).lock, mode |-> Instr(t).mode]}]
    /\ l_pc' = Step(t)
    /\ UNCHANGED call
    /\ UNCHANGED coreVars

\* a guard is dropped
LRelease(t) ==
    /\ Instr(t).op = "rel"
    /\ held' = [held EXCEPT ![t] = {g \in @ : g.lock # Instr(t).lock}]
    /\ l_pc' = Step(t)
    /\ UNCHANGED call
    /\ UNCHANGED coreVars

\* an external call is issued and awaited
LCallBegin(t) ==
    /\ Instr(t).op = "call"
    /\ call[t] = "none"
    /\ call' = [call EXCEPT ![t] = "flight"]
    /\ UNCHANGED <<l_pc, held>>
    /\ UNCHANGED coreVars

\* the call returns, with a result or an error
LCallReturn(t) ==
    /\ call[t] = "flight"
    /\ call' = [call EXCEPT ![t] = "none"]
    /\ l_pc' = Step(t)
    /\ UNCHANGED held
    /\ UNCHANGED coreVars

\* the peer stops answering: none of the calls of the running tasks is under
\* a timeout, so the await never returns
LCallStall(t) ==
    /\ call[t] = "flight"
    /\ call' = [call EXCEPT ![t] = "stalled"]
    /\ UNCHANGED <<l_pc, held>>
    /\ UNCHANGED coreVars

\* a bounded call times out.  The registration request's error ends
\* register_with_management_system, and initialize goes on; without a CouchDB
\* client the controller runs on local images, which this view does not follow
LCallTimeout(t) ==
    /\ call[t] \in {"flight", "stalled"}
    /\ Bounded(Instr(t).name)
    /\ call' = [call EXCEPT ![t] = "none"]
    /\ IF Instr(t).name = "CouchDbClient::new"
       THEN /\ l_pc' = [l_pc EXCEPT ![t] = LocalOnly]
            /\ held' = [held EXCEPT ![t] = {}]
       ELSE /\ l_pc' = Step(t)
            /\ UNCHANGED held
    /\ UNCHANGED coreVars

\* run_with_mqtt_control: the 10 s timeout around controller.initialize()
\* expires while initialize awaits a call; the future is dropped with its
\* guards and the error is returned to main
LInitTimeout ==
    /\ l_pc["I"].prog = "initialize"
    /\ call["I"] # "none"
    /\ l_pc' = [l_pc EXCEPT !["I"] = Failed]
    /\ held' = [held EXCEPT !["I"] = {}]
    /\ call' = [call EXCEPT !["I"] = "none"]
    /\ UNCHANGED coreVars

\* setup_signal_handler's thread: SIGINT or SIGTERM arrives, Shutdown is sent
\* to the frame loop's channel and the thread ends
LSignal ==
    /\ l_pc["I"] = Done
    /\ ~sigPending
    /\ sigPending' = TRUE
    /\ UNCHANGED <<scope, phase, mqtt, couch, state, current_index, images, config,
                   imagesLock, queue, h_pc, cur, p_pc, f_pc, current_orientation,
                   elapsed, emitted, observed, nDelivered, applied, sinceAdvance,
                   p_before, shutdownSeen>>
    /\ UNCHANGED viewVars

\* the end of the loop body, or of initialize; the frame loop's body ends
\* with rx.recv_timeout, which takes a pending Shutdown
LFinish(t) ==
    /\ Instr(t).op = "end"
    /\ l_pc[t] \notin {Idle, Done, LocalOnly, Failed, Exited}
    /\ l_pc' = [l_pc EXCEPT ![t] = IF t = "I" THEN Done
                                   ELSE IF t = "F" /\ sigPending THEN Exited
                                   ELSE Idle]
    /\ UNCHANGED <<held, call>>
    /\ UNCHANGED coreVars

InitLocks == InitIn("locks")

NextLocks ==
    \/ \E t \in Tasks : LStart(t)
    \/ \E t \in Tasks : LAcquire(t)
    \/ \E t \in Tasks : LRelease(t)
    \/ \E t \in Tasks : LCallBegin(t)
    \/ \E t \in Tasks : LCallReturn(t)
    \/ \E t \in Tasks : LCallStall(t)
    \/ \E t \in Tasks : LCallTimeout(t)
    \/ LInitTimeout
    \/ LSignal
    \/ \E t \in Tasks : LFinish(t)

SpecLocks == InitLocks /\ [][NextLocks]_vars

\* ------------------------------------------------------ inbound transports
\* a transport's handler ran on message m: the command it sent, if any, is
\* on the command channel
Inbound(m, h) ==
    /\ phase = "running"
    /\ IF h.sent = "none"
       THEN /\ inbound' = [last |-> m, dropped |-> TRUE]
            /\ UNCHANGED <<queue, nDelivered>>
       ELSE /\ nDelivered < MaxDelivered
            /\ Len(queue) < MaxPending
            /\ inbound' = [inbound EXCEPT !.last = m]
            /\ queue' = Append(queue, nDelivered + 1)
            /\ nDelivered' = nDelivered + 1
    /\ emitted' = <<>>
    /\ UNCHANGED <<state, current_index, images, config, imagesLock, h_pc, cur, applied,
                   shutdownSeen, p_pc, p_before, observed>>
    /\ UNCHANGED linkVars
    /\ UNCHANGED frameVars
    /\ UNCHANGED lockVars
    /\ UNCHANGED sinkVars
    /\ UNCHANGED <<calc, show, chan, stat>>

\* the MQTT event loop took a publish
HandleMqttMessage(m) ==
    /\ m \in MqttMessages
    /\ Inbound(m, handle_mqtt_message(m))

\* the HTTP server took a POST to its control endpoint
HandleControlRequest(r) ==
    /\ r \in ControlRequests
    /\ Inbound(r, handle_control_request(r))

\* the transports and the command handler under every inbound message
InitInbound == InitIn("inbound")

NextInbound ==
    \/ Initialize
    \/ \E m \in MqttMessages : HandleMqttMessage(m)
    \/ \E r \in ControlRequests : HandleControlRequest(r)
    \/ HPlay
    \/ HPause
    \/ HNext
    \/ HPrevious
    \/ HUpdateImagesBegin
    \/ HUpdateImagesEnd
    \/ HUpdateConfig
    \/ HReboot
    \/ HRebootFailed
    \/ HShutdown
    \/ HStatus

SpecInbound == InitInbound /\ [][NextInbound]_vars

\* ------------------------------------------------------- rendering calls
\* the framebuffer sizes and images the rendering functions are applied to:
\* small ones, the program's 1920 x 1080, and sizes around the capacity of
\* MAX_FRAMEBUFFER_SIZE / 4 pixels (all below the range of u32)
FrameWidths == (0..MaxSide) \cup {1920, MAX_FRAMEBUFFER_SIZE \div 4 - 1,
                                 MAX_FRAMEBUFFER_SIZE \div 4 + 1}
FrameHeights == 0..MaxSide

\* a rendering function returned: the other views stand still
Rendered ==
    /\ UNCHANGED <<scope, phase, mqtt, couch, state, current_index, images, config,
                   imagesLock, queue, h_pc, cur, p_pc, f_pc, current_orientation,
                   elapsed, sigPending, emitted, observed, nDelivered, applied,
                   sinceAdvance, p_before, shutdownSeen>>
    /\ UNCHANGED lockVars
    /\ UNCHANGED sinkVars
    /\ UNCHANGED <<inbound, show, chan, stat>>

\* display_image: image_to_bgra_buffer on an image of the framebuffer's
\* size, of the size turned by 90 degrees (the portrait placeholder), or of
\* one pixel
BuildBuffer(width, height, image) ==
    /\ calc = NoCalc
    /\ calc' = [f |-> "image_to_bgra_buffer", width |-> width, height |-> height,
                image |-> image,
                out |-> image_to_bgra_buffer(width, height, MAX_FRAMEBUFFER_SIZE, image)]
    /\ Rendered

\* the transition durations play_transition is given: every duration up to
\* MaxFrames frames, and the two of the configuration payloads
TransitionMillis ==
    (0..(FrameMillis * MaxFrames + FrameMillis - 1)) \cup TransitionDurations

\* run_original_slideshow: play_transition
PlayTransition(duration_ms, fail) ==
    /\ calc = NoCalc
    /\ calc' = [f |-> "play_transition", duration_ms |-> duration_ms, fail |-> fail,
                out |-> play_transition(duration_ms, fail)]
    /\ Rendered

\* the canvas sizes transitions are composed for: the two framebuffer
\* orientations and a small canvas just higher than the label
TransitionSizes == {<<1920, 1080>>, <<1080, 1920>>, <<MaxSide, 5 * TextCharSize * 2 + MaxSide>>}

\* the places looked at: the corners, the borders, the middle, and both sides
\* of the label's border
Places(size, kind) ==
    LET lw == NameLen(kind) * 8 * TextCharSize + 4 * TextCharSize
        lh == 9 * TextCharSize
    IN  ({0, 1, size[1] \div 2, size[1] - 1, lw - 1, lw} \cap (0..(size[1] - 1)))
        \X ({0, 1, size[2] \div 2, size[2] - 1, lh - 1, lh} \cap (0..(size[2] - 1)))

\* play_transition: create_transition_frame for the first or the last frame
ComposeFrame(progress, kind, size, at) ==
    /\ calc = NoCalc
    /\ calc' = [f |-> "create_transition_frame", progress |-> progress, kind |-> kind,
                size |-> size, at |-> at,
                out |-> create_transition_frame(progress, kind, size[1], size[2],
                                                at[1], at[2])]
    /\ Rendered

\* the sides of the images on disk, and the canvases they are scaled to: the
\* two framebuffer orientations and small ones
OriginalSides == (1..MaxSide) \cup {7, 10, 49, 100, 127}
TargetSizes == {<<1920, 1080>>, <<1080, 1920>>, <<MaxSide, MaxSide>>, <<1, MaxSide>>, <<1, 1>>}

\* scale_image_to_fit, or load_and_scale_image, on one decoded image
ScaleImage(f, original_width, original_height, target) ==
    /\ calc = NoCalc
    /\ calc' = [f |-> f, original_width |-> original_width,
                original_height |-> original_height,
                out |-> IF f = "scale_image_to_fit"
                        THEN scale_image_to_fit(original_width, original_height,
                                                target[1], target[2])
                        ELSE load_and_scale_image(original_width, original_height,
                                                  target[1], target[2])]
    /\ Rendered

\* TransitionType: every kind
TransitionKinds == DeterministicKinds \cup {"Dissolve", "Pixelate"}

\* play_transition: apply_easing on the progress i / (frame_count - 1) of
\* frame i
ApplyEasing(i, frame_count, kind) ==
    /\ calc = NoCalc
    /\ kind = "Elastic" => i \in {0, frame_count - 1}
    /\ calc' = [f |-> "apply_easing", kind |-> kind, i |-> i, frame_count |-> frame_count,
                out |-> EasedProgress(i, frame_count - 1, kind)]
    /\ Rendered

\* the rendering functions, each applied once to every argument
InitRender == InitIn("render")

\* run_slideshow_loop: "Always use landscape framebuffer dimensions"
DEFAULT_LANDSCAPE_WIDTH == 1920
DEFAULT_LANDSCAPE_HEIGHT == 1080

\* image::imageops::rotate90 on a canvas: width and height change places
rotate90(c) == Canvas(c.h, c.w)

\* load_and_scale_image_for_framebuffer: the canvas it returns for a decoded
\* image of image_width x image_height
load_and_scale_image_for_framebuffer(image_width, image_height, fb_width, fb_height, orientation) ==
    IF orientation = "portrait"
    THEN LET image_is_landscape == image_width > image_height
             portrait_width == fb_height
             portrait_height == fb_width
             scaled_img ==
                 IF image_is_landscape
                 THEN scale_image_to_fit(image_height, image_width,
                                         portrait_width, portrait_height)
                 ELSE scale_image_to_fit(image_width, image_height,
                                         portrait_width, portrait_height)
         IN  rotate90(Canvas(scaled_img.width, scaled_img.height))
    ELSE LET scaled_img == scale_image_to_fit(image_width, image_height,
                                              fb_width, fb_height)
         IN  Canvas(scaled_img.width, scaled_img.height)

\* create_info_placeholder: RgbaImage::new(width, height)
create_info_placeholder(width, height) == Canvas(width, height)

\* run_slideshow_loop: "If we're in portrait mode, rotate the placeholder too"
Placeholder(fb_width, fb_height, orientation) ==
    IF orientation = "portrait"
    THEN rotate90(create_info_placeholder(fb_width, fb_height))
    ELSE create_info_placeholder(fb_width, fb_height)

\* image_to_bgra_buffer: a position of the buffer the image has no pixel for
\* is filled with black; a pixel of the image beyond the buffer is not read
Padded(image, width, height) ==
    \E x \in {0, width - 1}, y \in {0, height - 1} : ~(x < image.w /\ y < image.h)

Cropped(image, width, height) ==
    \E x \in {0, image.w - 1}, y \in {0, image.h - 1} : ~(x < width /\ y < height)

\* run_slideshow_loop: fb.display_image on the canvas of one image, or on
\* the placeholder of an empty playlist, in the current orientation
PushCanvas(what, orientation, image_width, image_height) ==
    /\ calc = NoCalc
    /\ LET width == DEFAULT_LANDSCAPE_WIDTH
           height == DEFAULT_LANDSCAPE_HEIGHT
           image == IF what = "placeholder"
                    THEN Placeholder(width, height, orientation)
                    ELSE load_and_scale_image_for_framebuffer(
                             image_width, image_height, width, height, orientation)
       IN  calc' = [f |-> "display_image", what |-> what, orientation |-> orientation,
                    width |-> width, height |-> height, image |-> image,
                    padded |-> Padded(image, width, height),
                    cropped |-> Cropped(image, width, height)]
    /\ Rendered

NextRender ==
    \/ \E width \in FrameWidths, height \in FrameHeights :
         \E image \in {Canvas(width, height), Canvas(height, width), Canvas(1, 1)} :
            BuildBuffer(width, height, image)
    \/ \E duration_ms \in TransitionMillis, fail \in 0..MaxFrames :
         PlayTransition(duration_ms, fail)
    \/ \E progress \in {0, 1}, kind \in DeterministicKinds, size \in TransitionSizes :
         \E at \in Places(size, kind) : ComposeFrame(progress, kind, size, at)
    \/ \E f \in {"scale_image_to_fit", "load_and_scale_image"},
          original_width \in OriginalSides, original_height \in OriginalSides,
          target \in TargetSizes :
         ScaleImage(f, original_width, original_height, target)
    \/ \E frame_count \in 2..(MaxFrames + 1), kind \in TransitionKinds :
         \E i \in 0..(frame_count - 1) : ApplyEasing(i, frame_count, kind)
    \/ \E what \in {"image", "placeholder"}, orientation \in Orientations,
          image_width \in OriginalSides, image_height \in OriginalSides :
         PushCanvas(what, orientation, image_width, image_height)

SpecRender == InitRender /\ [][NextRender]_vars

\* --------------------------------------------------------- display loops
\* the loop has displayed as much as the model follows
Full == Len(show.shown) >= MaxShown

NoPending == {}

\* ImageManager::scan_images / add_new_image: the paths, sorted
Sorted(S) ==
    CHOOSE q \in [1..Cardinality(S) -> S] :
        \A i, j \in 1..Cardinality(S) : i < j => q[i] < q[j]

\* images.iter().position(|p| *p == path)
Position(q, path) == IF \E i \in DOMAIN q : q[i] = path
                     THEN {(CHOOSE i \in DOMAIN q : q[i] = path) - 1} ELSE {}

Returned(result, cause) ==
    [show EXCEPT !.pc = "returned", !.result = result, !.cause = cause]

Logged(sh, line) == [sh EXCEPT !.logged = Append(@, line)]

Displayed(sh, what, by) ==
    [sh EXCEPT !.shown = Append(@, [image |-> what, by |-> by])]

\* everything but the display loop
Shown ==
    /\ UNCHANGED <<scope, phase, mqtt, couch, state, current_index, images, config,
                   imagesLock, queue, h_pc, cur, p_pc, f_pc, current_orientation,
                   elapsed, sigPending, emitted, observed, nDelivered, applied,
                   sinceAdvance, p_before, shutdownSeen>>
    /\ UNCHANGED lockVars
    /\ UNCHANGED sinkVars
    /\ UNCHANGED <<inbound, calc, chan, stat>>

\* run_original_slideshow up to its loop: Framebuffer::new(..)?,
\* scan_images(..)?, the return when there is no image
RunOriginalSlideshow(opened, scanned, found, broken) ==
    /\ show = NoShow
    /\ LET sh == [mode |-> "standalone", pc |-> "load", images |-> Sorted(found),
                  broken |-> broken, current_index |-> 0, current_image_path |-> {},
                  pending_image_idx |-> NoPending, added |-> {}, shown |-> <<>>,
                  logged |-> <<>>,
                  result |-> "none", cause |-> "none"]
       IN  show' = IF ~opened
                   THEN [sh EXCEPT !.pc = "returned", !.result = "Err", !.cause = "open",
                                   !.images = <<>>]
                   ELSE IF ~scanned
                   THEN [sh EXCEPT !.pc = "returned", !.result = "Err", !.cause = "scan",
                                   !.images = <<>>]
                   ELSE IF found = {}
                   THEN [sh EXCEPT !.pc = "returned", !.result = "Ok", !.cause = "no images"]
                   ELSE sh
    /\ Shown

\* the loop's head: load_and_scale_image(..).map_err(..)?
SoloLoad ==
    /\ show.mode = "standalone" /\ show.pc = "load"
    /\ LET path == show.images[show.current_index + 1]
       IN  show' = IF path \in show.broken
                   THEN Returned("Err", "load")
                   ELSE [show EXCEPT !.pc = "display", !.current_image_path = {path}]
    /\ Shown

\* fb.display_image(&current_image)?; the display time begins, and added
\* records the path add_new_image added last during it
SoloDisplay(pushed_ok) ==
    /\ show.mode = "standalone" /\ show.pc = "display"
    /\ ~Full
    /\ show' = IF pushed_ok
               THEN Displayed([show EXCEPT !.pc = "events", !.added = {}],
                              TheOne(show.current_image_path), "display_image")
               ELSE Returned("Err", "push")
    /\ Shown

\* the display time: a NewImage event
SoloNewImage(path) ==
    /\ show.mode = "standalone" /\ show.pc = "events"
    /\ IF \E i \in DOMAIN show.images : show.images[i] = path
       THEN show' = show
       ELSE LET added == Sorted({show.images[i] : i \in DOMAIN show.images} \cup {path})
            IN  show' = [show EXCEPT !.images = added,
                                     !.pending_image_idx = Position(added, path),
                                     !.added = {path}]
    /\ Shown

\* the display time: a Shutdown event, then display_exit_joke and Ok(())
SoloShutdown(pushed_ok) ==
    /\ show.mode = "standalone" /\ show.pc = "events"
    /\ show' = IF pushed_ok THEN Returned("Ok", "shutdown")
               ELSE Logged(Returned("Ok", "shutdown"), "Failed to display exit joke")
    /\ Shown

\* run_original_slideshow: "Find current image index after potential sorting"
actual_current_idx(sh) ==
    LET here == Position(sh.images, TheOne(sh.current_image_path))
    IN  IF here = {} THEN sh.current_index ELSE TheOne(here)

next_idx_sequential(sh) ==
    IF actual_current_idx(sh) + 1 < Len(sh.images)
    THEN actual_current_idx(sh) + 1 ELSE 0

\* run_original_slideshow: "if new image pending, transition to it, otherwise
\* continue sequentially"
next_idx(sh) ==
    IF sh.pending_image_idx # NoPending
    THEN TheOne(sh.pending_image_idx)
    ELSE IF actual_current_idx(sh) + 1 < Len(sh.images)
    THEN actual_current_idx(sh) + 1 ELSE 0

\* the display time is over: the next index, play_transition, whose error is
\* printed, and current_index = next_idx
SoloTransition(pushed_ok) ==
    /\ show.mode = "standalone" /\ show.pc = "events"
    /\ LET loaded == /\ show.images[actual_current_idx(show) + 1] \notin show.broken
                     /\ show.images[next_idx(show) + 1] \notin show.broken
           sh == [show EXCEPT !.pc = "load", !.current_index = next_idx(show),
                              !.pending_image_idx = NoPending]
       IN  /\ loaded /\ pushed_ok => ~Full
           /\ show' = IF loaded /\ pushed_ok
                      THEN Displayed(sh, show.images[next_idx(show) + 1], "play_transition")
                      ELSE Logged(sh, "Failed to play transition")
    /\ Shown

\* run_slideshow_loop up to its loop: Framebuffer::new(..)?, the placeholder
\* when the playlist is empty
RunSlideshowLoop(opened, playlist, broken, pushed_ok) ==
    /\ show = NoShow
    /\ LET sh == [mode |-> "controlled", pc |-> "loop", images |-> Sorted(playlist),
                  broken |-> broken, current_index |-> 0, current_image_path |-> {},
                  pending_image_idx |-> NoPending, added |-> {}, shown |-> <<>>,
                  logged |-> <<>>,
                  result |-> "none", cause |-> "none"]
       IN  show' = IF ~opened
                   THEN [sh EXCEPT !.pc = "returned", !.result = "Err", !.cause = "open",
                                   !.images = <<>>]
                   ELSE IF playlist = {} /\ pushed_ok
                   THEN Displayed(sh, 0, "placeholder")
                   ELSE sh
    /\ Shown

\* one iteration of run_slideshow_loop over a fixed playlist: the advance
\* when it is due, the load and the push when an image is current and the
\* controller is playing, the events
ControlledIteration(due, playing, pushed_ok, event) ==
    /\ show.mode = "controlled" /\ show.pc = "loop"
    /\ LET index == IF due THEN NextIndex(show.current_index, Len(show.images))
                    ELSE show.current_index
           advanced == [show EXCEPT !.current_index = index]
           rendered ==
               IF index + 1 \in DOMAIN show.images /\ playing
               THEN IF show.images[index + 1] \in show.broken
                    THEN Logged(advanced, "Failed to load image")
                    ELSE IF pushed_ok
                    THEN Displayed(advanced, show.images[index + 1], "display_image")
                    ELSE Logged(advanced, "Failed to display image")
               ELSE advanced
       IN  /\ Len(rendered.shown) <= MaxShown
           /\ Len(rendered.logged) <= MaxShown
           /\ show' = IF event = "Shutdown"
                      THEN [rendered EXCEPT !.pc = "returned", !.result = "Ok",
                                            !.cause = "shutdown"]
                      ELSE rendered
    /\ Shown

InitDisplay == InitIn("display")

NextDisplay ==
    \/ \E opened \in BOOLEAN, scanned \in BOOLEAN, found \in SUBSET Ids,
          broken \in SUBSET Ids :
         RunOriginalSlideshow(opened, scanned, found, broken)
    \/ SoloLoad
    \/ \E pushed_ok \in BOOLEAN : SoloDisplay(pushed_ok)
    \/ \E path \in Ids : SoloNewImage(path)
    \/ \E pushed_ok \in BOOLEAN : SoloShutdown(pushed_ok)
    \/ \E pushed_ok \in BOOLEAN : SoloTransition(pushed_ok)
    \/ \E opened \in BOOLEAN, playlist \in SUBSET Ids, broken \in SUBSET Ids,
          pushed_ok \in BOOLEAN :
         RunSlideshowLoop(opened, playlist, broken, pushed_ok)
    \/ \E due \in BOOLEAN, playing \in BOOLEAN, pushed_ok \in BOOLEAN,
          event \in {"Timeout", "NewImage", "Shutdown"} :
         ControlledIteration(due, playing, pushed_ok, event)

SpecDisplay == InitDisplay /\ [][NextDisplay]_vars

\* ------------------------------------------------------- command channel
\* everything but the channel
Channelled ==
    /\ UNCHANGED <<scope, phase, mqtt, couch, state, current_index, images, config,
                   imagesLock, queue, h_pc, cur, p_pc, f_pc, current_orientation,
                   elapsed, sigPending, emitted, observed, nDelivered, applied,
                   sinceAdvance, p_before, shutdownSeen>>
    /\ UNCHANGED lockVars
    /\ UNCHANGED sinkVars
    /\ UNCHANGED <<inbound, calc, show, stat>>

\* run_with_mqtt_control: MqttClient::new under its timeout; a connected
\* client's event loop sends the commands it receives from then on
ChanConnect(connected) ==
    /\ chan.pc = "created"
    /\ chan' = [chan EXCEPT !.pc = "initializing", !.mqtt = connected]
    /\ Channelled

\* command_sender.send(command) by handle_mqtt_message, or by the HTTP
\* handlers once run_http_server has been spawned: the value is stored for
\* every receiver; the send succeeds while a receiver exists
ChanSend(via) ==
    /\ \/ via = "mqtt" /\ chan.mqtt /\ chan.pc \in {"initializing", "running"}
       \/ via = "http" /\ chan.pc = "running"
    /\ chan.sent < ChannelCapacity + MaxExtra
    /\ chan' = [chan EXCEPT !.sent = @ + 1]
    /\ Channelled

\* controller.clone() for the command handler: command_receiver.resubscribe()
\* gives a receiver that sees only the values sent after this call
ChanStartHandler ==
    /\ chan.pc = "initializing"
    /\ chan' = [chan EXCEPT !.pc = "running", !.next = chan.sent, !.missed = chan.sent]
    /\ Channelled

\* what recv() returns to a receiver at position next: a receiver more than
\* the capacity behind gets Err(Lagged(n)) and is moved past the n values that
\* were overwritten
RecvResult(sent, next) ==
    IF sent - next > ChannelCapacity
    THEN [ok |-> FALSE, lagged |-> sent - next - ChannelCapacity,
          next |-> sent - ChannelCapacity]
    ELSE [ok |-> TRUE, lagged |-> 0, next |-> next + 1]

\* run_command_handler: one pass of the loop; an Ok(command) is handled, an
\* Err is ignored
ChanRecv ==
    /\ chan.pc = "running"
    /\ chan.next < chan.sent
    /\ LET r == RecvResult(chan.sent, chan.next)
       IN  chan' = [chan EXCEPT !.next = r.next,
                                !.applied = IF r.ok THEN @ + 1 ELSE @,
                                !.missed = @ + r.lagged]
    /\ Channelled

InitChannel == InitIn("channel")

NextChannel ==
    \/ \E connected \in BOOLEAN : ChanConnect(connected)
    \/ \E via \in {"mqtt", "http"} : ChanSend(via)
    \/ ChanStartHandler
    \/ ChanRecv

SpecChannel == InitChannel /\ [][NextChannel]_vars

\* --------------------------------------------------------- status emission
\* everything but the status view
Snapped ==
    /\ UNCHANGED <<scope, phase, mqtt, couch, state, current_index, images, config,
                   imagesLock, queue, h_pc, cur, p_pc, f_pc, current_orientation,
                   elapsed, sigPending, emitted, observed, nDelivered, applied,
                   sinceAdvance, p_before, shutdownSeen>>
    /\ UNCHANGED lockVars
    /\ UNCHANGED sinkVars
    /\ UNCHANGED <<inbound, calc, show, chan>>

\* an emission is between its first read and its send
Emitting == stat.pc \in {"state", "index"}

\* the shared state at this instant
Instant(sn) == [current_index |-> sn.current_index, images |-> sn.images]

\* a change of the shared state: during an emission the new instant is kept
Changed(sn) ==
    IF Emitting THEN [sn EXCEPT !.instants = @ \cup {Instant(sn)}] ELSE sn

\* update_images: it ends with state.write(), which waits while an emission
\* holds its state guard, so that it runs between emissions
StUpdateImages(new_images) ==
    /\ ~Emitting
    /\ stat' = [stat EXCEPT !.images = SortByOrder(new_images),
                            !.current_index = ClampIndex(@, Len(new_images)),
                            !.state = StateForCount(Len(new_images))]
    /\ Snapped

\* fetch_images_from_couchdb of the periodic task: it takes config and images
\* only, and runs during an emission of the command handler
StFetch(cat, failed) ==
    /\ Emitting => (stat.by = "H" /\ Cardinality(stat.instants) <= MaxChanges)
    /\ stat' = Changed([stat EXCEPT !.images = FetchedImages(cat, failed)])
    /\ Snapped

\* advance_to_next_image of the frame loop: it takes images.read() and
\* current_index.write(), and runs during an emission
StAdvance ==
    /\ Emitting => Cardinality(stat.instants) <= MaxChanges
    /\ stat' = Changed([stat EXCEPT
                          !.current_index = NextIndex(@, Len(stat.images))])
    /\ Snapped

\* send_status_update: let state = self.state.read().await
StReadState(by) ==
    /\ ~Emitting
    /\ stat' = [stat EXCEPT !.pc = "state", !.by = by, !.instants = {Instant(stat)},
                            !.body = {}]
    /\ Snapped

\* let current_index = *self.current_index.read().await
StReadIndex ==
    /\ stat.pc = "state"
    /\ stat' = [stat EXCEPT !.pc = "index", !.read_index = stat.current_index]
    /\ Snapped

\* let images = self.images.read().await, and the TvStatus built and sent
StSend ==
    /\ stat.pc = "index"
    /\ stat' = [stat EXCEPT !.pc = "sent",
                            !.body = {Snapshot(stat.state, stat.read_index, stat.images)}]
    /\ Snapped

InitStatus == InitIn("status")

NextStatus ==
    \/ \E new_images \in PayloadLists : StUpdateImages(new_images)
    \/ \E cat \in Catalogs, failed \in SUBSET Ids : StFetch(cat, failed)
    \/ StAdvance
    \/ \E by \in {"H", "P"} : StReadState(by)
    \/ StReadIndex
    \/ StSend

SpecStatus == InitStatus /\ [][NextStatus]_vars

\* ------------------------------------------------------ device sink's use
\* run_slideshow_loop / run_original_slideshow: Framebuffer::new
FbNew(dev) ==
    /\ fb.status = "unopened"
    /\ LET r == FramebufferNew(dev)
       IN  fb' = [status |-> IF r.ok THEN "open" ELSE "error", dev |-> dev,
                  sink |-> r.sink, tried |-> r.tried, pos |-> 0]
    /\ UNCHANGED <<pushed, inbound, calc, show, chan, stat>>
    /\ UNCHANGED lockVars
    /\ UNCHANGED <<scope, phase, mqtt, couch, state, current_index, images, config,
                   imagesLock, queue, h_pc, cur, p_pc, f_pc, current_orientation,
                   elapsed, sigPending, emitted, observed, nDelivered, applied,
                   sinceAdvance, p_before, shutdownSeen>>

\* display_image / play_transition: one display_buffer call
FbPush(len, fault) ==
    /\ fb.status = "open"
    /\ pushed.n < MaxPushes
    /\ LET r == DisplayBuffer(fb.sink, fb.pos, len, fault)
       IN  /\ pushed' = [n |-> pushed.n + 1, len |-> len, from |-> fb.pos,
                         mode |-> Mode(fb.sink), out |-> r]
           /\ fb' = [fb EXCEPT !.pos = r.pos]
    /\ UNCHANGED <<inbound, calc, show, chan, stat>>
    /\ UNCHANGED lockVars
    /\ UNCHANGED <<scope, phase, mqtt, couch, state, current_index, images, config,
                   imagesLock, queue, h_pc, cur, p_pc, f_pc, current_orientation,
                   elapsed, sigPending, emitted, observed, nDelivered, applied,
                   sinceAdvance, p_before, shutdownSeen>>

\* the device sink under every answer of the operating system
InitSink == InitIn("sink")

NextSink ==
    \/ \E dev \in Devices : FbNew(dev)
    \/ \E len \in BufferLens, fault \in Faults : FbPush(len, fault)

SpecSink == InitSink /\ [][NextSink]_vars

\* ------------------------------------------------------------- properties
\* steps of the tasks, as the properties below name them
Takes(k) == h_pc = "recv" /\ cur'.kind = k
UpdateImagesCompletes == h_pc = "upd" /\ h_pc' = "status"
CatalogSyncCompletes == p_pc = "fetch_held" /\ p_pc' = "status"
InitialSyncCompletes == phase = "new" /\ phase' = "running"
AutoAdvances == f_pc = "advance" /\ f_pc' # "advance"

\* C1: whenever a playlist that held images becomes empty, by an UpdateImages
\* command carrying an empty list or by a catalog sync that yields no image,
\* the state is Stopped afterwards, whatever it was before
C1_EmptiedPlaylistStops ==
    [][/\ (UpdateImagesCompletes /\ cur.before.nonempty /\ images' = <<>>)
            => state' = "Stopped"
       /\ (CatalogSyncCompletes /\ p_before /\ images' = <<>>)
            => state' = "Stopped"
       /\ (InitialSyncCompletes /\ images' = <<>>)
            => state' = "Stopped"]_vars

\* C2: an UpdateImages command with a non-empty list, applied while the state
\* is Stopped, leaves the state Playing
C2_UpdateImagesStartsPlayback ==
    [][(UpdateImagesCompletes /\ state = "Stopped" /\ images' # <<>>)
            => state' = "Playing"]_vars

\* C2 witness: an UpdateImages command found the state Stopped, stored a
\* non-empty list, and the state is Playing
C2_Witness ==
    /\ h_pc = "status"
    /\ cur.kind = "UpdateImages"
    /\ cur.before.state = "Stopped"
    /\ images # <<>>
    /\ state = "Playing"

C4_NextPreviousWrap ==
    [][/\ Takes("Next") =>
            IF images # <<>>
            THEN /\ current_index' = (current_index + 1) % Len(images)
                 /\ current_index' < Len(images)
            ELSE current_index' = current_index
       /\ Takes("Previous") =>
            IF images # <<>>
            THEN /\ current_index' = (current_index - 1) % Len(images)
                 /\ current_index' < Len(images)
            ELSE current_index' = current_index]_vars

\* C5 as stated: no reader observes a partly replaced playlist, and when
\* current_index >= the length of the new list (the empty list included)
\* UpdateImages sets current_index to 0
C5_AtomicReplaceClampsAlways ==
    [][/\ observed' # "partial"
       /\ (UpdateImagesCompletes /\ current_index >= Len(images'))
            => current_index' = 0]_vars

\* C5 amended: no reader observes a partly replaced playlist; when the new
\* list is non-empty and current_index >= its length UpdateImages sets
\* current_index to 0, and otherwise (the empty list included) it leaves
\* current_index unchanged
C5_AtomicReplaceClampsNonEmpty ==
    [][/\ observed' # "partial"
       /\ UpdateImagesCompletes =>
            /\ IsSorted(images')
            /\ current_index' = IF images' # <<>> /\ current_index >= Len(images')
                                 THEN 0 ELSE current_index]_vars

\* C5 witness: an UpdateImages command stored the empty list and
\* current_index is still past 0, and a reader has read the playlist
C5_Witness ==
    /\ h_pc = "status"
    /\ cur.kind = "UpdateImages"
    /\ images = <<>>
    /\ current_index > 0
    /\ observed = "whole"

\* C6: UpdateConfig sets exactly the fields present in its payload
\* (display_duration, transition_duration, transition_effect, orientation) to
\* the given values and leaves every absent field, the state, current_index
\* and the playlist unchanged
C6_UpdateConfigSetsPresentFields ==
    [][Takes("UpdateConfig") =>
        /\ \A f \in DOMAIN config :
                IF cur'.payload[f] = {} THEN config'[f] = config[f]
                ELSE config'[f] \in cur'.payload[f]
        /\ DOMAIN config' = DOMAIN config
        /\ state' = state
        /\ current_index' = current_index
        /\ images' = images]_vars

\* C6 witness: an UpdateConfig command carrying a display duration and an
\* orientation, and neither transition field, has been applied
C6_Witness ==
    /\ h_pc = "status"
    /\ cur.kind = "UpdateConfig"
    /\ cur.payload.display_duration = {LongDuration}
    /\ cur.payload.orientation = {"portrait"}
    /\ cur.payload.transition_duration = {}
    /\ cur.payload.transition_effect = {}
    /\ config.display_duration = LongDuration
    /\ config.orientation = "portrait"
    /\ config.transition_duration = ShortTransition
    /\ state = "Paused"

\* C7: the frame loop advances current_index only when the state is Playing
\* and the time since the last advance is at least display_duration, never
\* while Paused or Stopped and never earlier; an advance moves the index by
\* one position modulo the playlist length and restarts the measurement
C7_AdvanceOnlyWhenDue ==
    [][AutoAdvances =>
        /\ state = "Playing"
        /\ sinceAdvance >= config.display_duration
        /\ current_index' = IF images # <<>> THEN (current_index + 1) % Len(images)
                             ELSE current_index
        /\ elapsed' = 0]_vars

\* C8: every applied command and every auto-advance is followed by one
\* status emission, one publish to MQTT and one status update to CouchDB,
\* reporting the state, current_index, total_images and current_image after
\* the change.  Stated for a controller that has both clients, and read in
\* the claim's favour: a status published more than once counts as one
C8_OneStatusEmission ==
    [][(mqtt /\ couch /\ (AutoAdvances \/ (h_pc = "status" /\ h_pc' = "recv"))) =>
        LET toMqtt == {k \in DOMAIN emitted' : /\ emitted'[k].to = "mqtt"
                                               /\ emitted'[k].topic = "status"}
            toCouch == {k \in DOMAIN emitted' : /\ emitted'[k].to = "couch"
                                                /\ emitted'[k].topic = "status"}
        IN  /\ toMqtt # {}
            /\ toCouch # {}
            /\ \A k \in toMqtt :
                    emitted'[k].body = Snapshot(state', current_index', images')
            /\ \A k \in toCouch :
                    /\ emitted'[k].body.status = StatusStr(state')
                    /\ emitted'[k].body.current_image =
                            CurrentImage(current_index', images')]_vars

\* C9: a Shutdown command sets the state to Stopped and ends nothing: the
\* command handler goes on to its status update and to the next command, the
\* frame loop keeps its place, and the frame loop ends only on a termination
\* signal
C9_ShutdownCommandOnlyStops ==
    [][/\ Takes("Shutdown") =>
            /\ state' = "Stopped"
            /\ phase' = "running"
            /\ h_pc' = "status"
            /\ f_pc' = f_pc
       /\ (shutdownSeen /\ h_pc = "status" /\ h_pc' # "status") =>
            /\ h_pc' = "recv"
            /\ phase' = "running"
       /\ phase' # phase =>
            \/ InitialSyncCompletes
            \/ phase = "running" /\ phase' = "exited" /\ sigPending]_vars

\* C9 witness: after a Shutdown command a Play command has been applied,
\* the state is Playing and the frame loop runs
C9_Witness ==
    /\ shutdownSeen
    /\ cur.kind = "Play"
    /\ h_pc = "status"
    /\ state = "Playing"
    /\ phase = "running"
    /\ f_pc = "top"
    /\ ~sigPending

\* C10: the commands are applied in the order of their delivery to the
\* command channel, one at a time: the handler takes a command only when it
\* has finished the one before, and the command it takes is the next delivered
C10_AppliedInDeliveryOrder ==
    [][applied' # applied =>
        /\ h_pc = "recv"
        /\ cur = NoCommand
        /\ applied' = applied + 1]_vars

\* C10 witness: the first command delivered is being applied while the second
\* waits in the channel
C10_Witness ==
    /\ applied = 1
    /\ cur.seq = 1
    /\ queue = <<2>>
    /\ h_pc \in {"upd", "status"}

\* C11: applying a command's state change and emitting its status is atomic
\* with respect to other mutations: while the handler stands between the
\* command's mutation and the snapshot its status reports, no auto-advance,
\* periodic sync or other step changes state, current_index or the playlist
C11_StatusAtomicWithCommand ==
    [][(h_pc = "status" /\ h_pc' = "status")
            => UNCHANGED <<state, current_index, images>>]_vars

\* C12: no read or write guard on config, state, current_index or images is
\* held while an external call is in flight
C12_NoGuardAcrossCalls ==
    \A t \in Tasks : call[t] # "none" => held[t] = {}

\* a catalog sync, registration or attachment download that never returns
\* and that no timeout ends
SyncCalls == {"get_tv_config", "get_images_for_tv", "download_image_attachment",
              "register", "CouchDbClient::new"}

HangsForever(t) ==
    /\ call[t] = "stalled"
    /\ Instr(t).name \in SyncCalls
    /\ ~Bounded(Instr(t).name)
    /\ l_pc[t].prog # "initialize"

\* task t waits for a lock that a task hanging forever holds
WaitsBehind(t, u) ==
    /\ Instr(t).op = "acq"
    /\ HangsForever(u)
    /\ \E g \in held[u] :
        g.lock = Instr(t).lock /\ (g.mode = "w" \/ Instr(t).mode = "w")

\* C13: every catalog sync, registration and attachment download is bounded
\* by a timeout, so a call that never returns blocks neither the command
\* handler nor the frame loop for ever: the handler never hangs in such a
\* call, and neither task waits for a lock held across one
C13_StalledCallBlocksNoOne ==
    /\ ~HangsForever("H")
    /\ \A u \in Tasks : ~WaitsBehind("H", u) /\ ~WaitsBehind("F", u)

\* C14: an unavailable or stalled broker, catalog store or registration
\* service is never fatal: startup never ends with the error of initialize
C14_StartupNeverFails ==
    l_pc["I"] # Failed

\* C15: once the shutdown signal is delivered the frame loop leaves within
\* one iteration: it never waits, with the signal pending, for a lock held by
\* a task that hangs for ever
C15_SignalledLoopExits ==
    sigPending => \A u \in Tasks : ~WaitsBehind("F", u)

\* what the protocol calls a well-formed command: on the TV's command topic,
\* UTF-8, JSON, a known command name, and a payload that parses where the
\* command has one; over HTTP, a known action
WellFormed(m) ==
    IF m.via = "mqtt"
    THEN /\ m.topic = "command"
         /\ m.utf8
         /\ m.json
         /\ m.command \in CommandNames
         /\ m.command \in {"update_images", "update_config"} => m.payload = "ok"
    ELSE m.via = "http" /\ m.action \in ControlActions

\* C16: a malformed inbound message is dropped: nothing is sent on the
\* command channel and state, current_index, playlist and config are
\* unchanged; a well-formed one, also after a drop, is sent on the channel
C16_MalformedDropped ==
    [][inbound' # inbound =>
          IF WellFormed(inbound'.last)
          THEN queue' = Append(queue, nDelivered + 1)
          ELSE UNCHANGED <<queue, nDelivered, state, current_index, images, config,
                           h_pc, cur>>]_vars

\* a well-formed command arrived after a drop and has been processed
C16_Witness ==
    /\ inbound.dropped
    /\ WellFormed(inbound.last)
    /\ nDelivered > 0
    /\ applied = nDelivered
    /\ h_pc = "recv"

\* C17: the sink mode follows the ordered fallback of open and no push
\* changes it: FileFallback iff the read+write open failed, MemoryMapped iff
\* the device opened and the mapping succeeded with nonzero length,
\* DirectWrite iff the device opened and the mapping failed or was empty
C17_ModeByOrderedFallback ==
    /\ [](fb.status = "open" =>
            /\ Mode(fb.sink) \in {"MemoryMapped", "DirectWrite", "FileFallback"}
            /\ Mode(fb.sink) = "FileFallback" <=> ~fb.dev.open_rw
            /\ Mode(fb.sink) = "MemoryMapped" <=>
                   (fb.dev.open_rw /\ fb.dev.map \notin {{}, {0}})
            /\ Mode(fb.sink) = "DirectWrite" <=>
                   (fb.dev.open_rw /\ fb.dev.map \in {{}, {0}}))
    /\ [][fb.status = "open" => Mode(fb'.sink) = Mode(fb.sink)]_vars

\* a device whose mapping is empty took a push in DirectWrite mode
C17_Witness ==
    /\ fb.status = "open"
    /\ fb.dev.open_rw
    /\ fb.dev.map = {0}
    /\ Mode(fb.sink) = "DirectWrite"
    /\ pushed.n > 0
    /\ ~pushed.out.ok

\* C18: open fails only after the file fallback was tried and could not be
\* created
C18_OpenFailsOnlyAfterFallback ==
    fb.status = "error" =>
        /\ fb.tried[Len(fb.tried)] = "create"
        /\ ~fb.dev.create

\* the writes of a push lie one after the other and cover at most max bytes
WritesWithin(ws, max) ==
    \A i \in DOMAIN ws :
        /\ i > 1 => ws[i].at = ws[i - 1].at + ws[i - 1].len
        /\ ws[i].at + ws[i].len - ws[1].at <= max

\* C19: an oversized buffer is refused and writes nothing; no push writes
\* more than the maximum buffer size; a mapped push writes exactly
\* min(len(buffer), len(mapping)) bytes at offset 0
C19_PushWithinBounds ==
    pushed.n > 0 =>
        /\ pushed.len > MAX_FRAMEBUFFER_SIZE =>
               ~pushed.out.ok /\ pushed.out.writes = <<>>
        /\ WritesWithin(pushed.out.writes, MAX_FRAMEBUFFER_SIZE)
        /\ (pushed.mode = "MemoryMapped" /\ pushed.len <= MAX_FRAMEBUFFER_SIZE) =>
               LET n == Min(pushed.len, TheOne(fb.sink.mmap))
               IN  IF n = 0 THEN pushed.out.writes = <<>>
                   ELSE pushed.out.writes = <<Write("mmap", 0, n)>>

\* a mapped push of a buffer longer than the mapping
C19_Witness ==
    /\ pushed.n > 0
    /\ pushed.mode = "MemoryMapped"
    /\ pushed.len <= MAX_FRAMEBUFFER_SIZE
    /\ pushed.len > TheOne(fb.sink.mmap)
    /\ pushed.out.writes # <<>>

\* the chunks of a direct-write push lie one after the other from offset 0,
\* each a whole chunk of the buffer
InOrderFromZero(ws, len) ==
    \A i \in DOMAIN ws :
        /\ ws[i].to = "file"
        /\ ws[i].at = (i - 1) * CHUNK_SIZE
        /\ i < Len(ws) => ws[i].len = ChunkLen(len, i)

\* C20: a DirectWrite push starts at offset 0 and writes the chunks in order;
\* a failed chunk ends it, and the error returned carries the byte offset
\* reached
C20_DirectWriteReportsOffset ==
    (pushed.n > 0 /\ pushed.mode = "DirectWrite" /\ pushed.len <= MAX_FRAMEBUFFER_SIZE) =>
        /\ InOrderFromZero(pushed.out.writes, pushed.len)
        /\ pushed.out.logged >= 0 =>
               /\ ~pushed.out.ok
               /\ pushed.out.error.message = <<pushed.out.logged>>

\* C21: when the device does not open and the fallback file can be created,
\* open succeeds in FileFallback mode; every push of an accepted size that
\* returns Ok wrote the whole buffer, in one piece after the bytes of the
\* pushes before it, and flushed the file
C21_FallbackWritesWholeBuffer ==
    /\ (fb.status # "unopened" /\ ~fb.dev.open_rw /\ fb.dev.create) =>
           fb.status = "open" /\ Mode(fb.sink) = "FileFallback"
    /\ (pushed.n > 0 /\ pushed.mode = "FileFallback" /\ pushed.out.ok) =>
           /\ pushed.len <= MAX_FRAMEBUFFER_SIZE
           /\ pushed.out.writes =
                  IF pushed.len > 0
                  THEN <<Write("fallback", pushed.from, pushed.len)>> ELSE <<>>
           /\ pushed.out.flush = "ok"
           /\ fb.pos = pushed.from + pushed.len

\* the second push to a fallback file wrote a whole buffer after the first
C21_Witness ==
    /\ ~fb.dev.open_rw
    /\ pushed.n > 1
    /\ pushed.mode = "FileFallback"
    /\ pushed.out.ok
    /\ pushed.from > 0
    /\ pushed.len > CHUNK_SIZE

\* the pixels of a buffer, as positions of the framebuffer's grid in the
\* order the buffer holds them
BuiltBuffer == calc.f = "image_to_bgra_buffer"

\* C22: the buffer holds the framebuffer's positions in scanline order (row
\* after row from row 0, each row from column 0, every row but the last one
\* whole), four bytes B,G,R,A per position taken from the canvas pixel there
\* (opaque black where the canvas has none); its length is
\* min(width * height * 4, maximum buffer size), so push never refuses it as
\* oversized
C22_BufferIsBgraScanlines ==
    BuiltBuffer =>
        LET rows == calc.out.rows
        IN  /\ calc.out.len = Min(calc.width * calc.height * 4, MAX_FRAMEBUFFER_SIZE)
            /\ \A i \in DOMAIN rows :
                   /\ rows[i].y = i - 1
                   /\ rows[i].n <= calc.width
                   /\ i < Len(rows) => rows[i].n = calc.width
                   /\ \A x \in {0, rows[i].n - 1, calc.image.w - 1, calc.image.w}
                                  \cap (0..(rows[i].n - 1)) :
                          PushedBytes(calc.image, x, rows[i].y) =
                              IF x < calc.image.w /\ rows[i].y < calc.image.h
                              THEN LET px == CanvasPixel(calc.image, x, rows[i].y)
                                   IN  <<px[3], px[2], px[1], px[4]>>
                              ELSE <<0, 0, 0, 255>>
            /\ DisplayBuffer(NoSink, 0, calc.out.len, [op |-> "none", chunk |-> 0,
                                                      partial |-> 0]).ok

\* a buffer cut at the maximum buffer size in the middle of a row
C22_Witness ==
    /\ BuiltBuffer
    /\ calc.width * calc.height * 4 > MAX_FRAMEBUFFER_SIZE
    /\ calc.out.len = MAX_FRAMEBUFFER_SIZE
    /\ Len(calc.out.rows) > 1
    /\ calc.out.rows[Len(calc.out.rows)].n < calc.width

\* a transition none of whose pushes failed
PlayedTransition == calc.f = "play_transition" /\ calc.fail = 0

\* C23: for every duration, also one below 33 ms, a transition produces
\* exactly max(1, floor(duration_ms / 33)) frames, pushes each once in order
\* and ends
C23_FrameCountAtLeastOne ==
    PlayedTransition =>
        /\ ~calc.out.panic
        /\ calc.out.ok
        /\ Len(calc.out.frames) =
               IF calc.duration_ms \div FrameMillis > 1
               THEN calc.duration_ms \div FrameMillis ELSE 1
        /\ \A i \in DOMAIN calc.out.frames : calc.out.frames[i].num = i - 1

\* C24: frame i of frame_count uses progress i / (frame_count - 1): in
\* [0, 1], 0 for the first frame, 1 for the last, strictly increasing; the
\* only frame of a single-frame transition uses progress 0
C24_ProgressFromZeroToOne ==
    (PlayedTransition /\ ~calc.out.panic) =>
        LET fr == calc.out.frames
        IN  /\ \A i \in DOMAIN fr :
                   /\ fr[i].den > 0
                   /\ 0 <= fr[i].num /\ fr[i].num <= fr[i].den
                   /\ i > 1 => fr[i - 1].num * fr[i].den < fr[i].num * fr[i - 1].den
            /\ fr # <<>> => fr[1].num = 0
            /\ Len(fr) > 1 => fr[Len(fr)].num = fr[Len(fr)].den

\* C25: for every deterministic transition kind, canvas size and place
\* outside the label, the frame for progress 0 shows the pixel of the 'from'
\* canvas and the frame for progress 1 the pixel of the 'to' canvas
C25_EndsArePureFromAndTo ==
    (calc.f = "create_transition_frame" /\ ~calc.out.label) =>
        calc.out.pixel =
            ImgPixel(IF calc.progress = 0 THEN "img1" ELSE "img2", calc.at[1], calc.at[2])

Scaled == calc.f \in {"scale_image_to_fit", "load_and_scale_image"}

\* the places of a composed canvas looked at: its borders and both sides of
\* each border of the scaled image
Along(offset, scaled, target) ==
    {0, offset - 1, offset, offset + scaled - 1, offset + scaled, target - 1}
        \cap (0..(target - 1))

\* C26: the composed canvas has the target dimensions; the scaled image is no
\* larger than the target in either dimension, so no offset underflows; it is
\* placed at floor((target - scaled) / 2) in both dimensions; every pixel
\* outside it is opaque black
C26_ScaledImageCentredOnBlack ==
    Scaled =>
        LET r == calc.out
        IN  /\ ~r.underflow
            /\ r.scaled_width <= r.width /\ r.scaled_height <= r.height
            /\ 2 * r.x_offset <= r.width - r.scaled_width
            /\ 2 * r.x_offset + 1 >= r.width - r.scaled_width
            /\ 2 * r.y_offset <= r.height - r.scaled_height
            /\ 2 * r.y_offset + 1 >= r.height - r.scaled_height
            /\ \A x \in Along(r.x_offset, r.scaled_width, r.width),
                  y \in Along(r.y_offset, r.scaled_height, r.height) :
                  (\/ x < r.x_offset \/ x >= r.x_offset + r.scaled_width
                   \/ y < r.y_offset \/ y >= r.y_offset + r.scaled_height)
                      => ResultPixel(r, x, y).pixel = BlackPixel

\* a portrait image scaled for the landscape framebuffer: black bars on both
\* sides of it
C26_Witness ==
    /\ Scaled
    /\ calc.original_width < calc.original_height
    /\ calc.out.width = 1920 /\ calc.out.scaled_height = calc.out.height
    /\ calc.out.x_offset > 0
    /\ ResultPixel(calc.out, 0, 0).of = "background"
    /\ ResultPixel(calc.out, calc.out.x_offset, 0).of = "scaled_img"

\* C27: in no run mode does a display loop return because an image failed to
\* load or decode: the loop goes on to the later images
C27_LoadFailureNotFatal == ~(show.pc = "returned" /\ show.cause = "load")

\* C28: in no run mode does a display loop return because a push to the
\* device sink failed: the loop goes on to the later frames
C28_PushFailureNotFatal == ~(show.pc = "returned" /\ show.cause = "push")

\* out holds exactly the entries of cat, sorted by order, entries of equal
\* order in the order cat has them
ExactlySorted(out, cat) ==
    /\ Len(out) = Len(cat)
    /\ \A i \in DOMAIN cat : \E j \in DOMAIN out : out[j] = cat[i]
    /\ \A a, b \in DOMAIN out :
          a < b => /\ out[a].order <= out[b].order
                   /\ out[a].order = out[b].order =>
                         \E i, j \in DOMAIN cat : i < j /\ cat[i] = out[a] /\ cat[j] = out[b]

\* C29: a catalog sync that fails leaves the playlist as it was; one that
\* succeeds leaves exactly the entries of the catalog it received, sorted by
\* display order with ties in received order
C29_SyncReplacesWholesale ==
    [][/\ (p_pc = "fetch" /\ p_pc' = "status") => images' = images
       /\ CatalogSyncCompletes =>
             \E cat \in Inputs(scope).catalogs : ExactlySorted(images', cat)]_vars

\* C30: a controller that has been constructed and not yet initialized is
\* Stopped, at index 0, with an empty playlist; when initialize returns Ok the
\* state is Playing if the playlist holds an image and Stopped if it holds none
C30_StoppedThenStateByPlaylist ==
    /\ [](phase = "new" => state = "Stopped" /\ current_index = 0 /\ images = <<>>)
    /\ [][(phase = "new" /\ phase' = "running") =>
             /\ images' # <<>> => state' = "Playing"
             /\ images' = <<>> => state' = "Stopped"]_vars

\* initialize has returned with images in the playlist, and nothing else has
\* happened since
C30_Witness ==
    /\ phase = "running" /\ nDelivered = 0 /\ p_pc = "wait" /\ f_pc = "top"
    /\ elapsed = 0 /\ ~sigPending
    /\ images # <<>> /\ state = "Playing" /\ current_index = 0

\* C31: every easing function maps progress 0 to 0 and progress 1 to 1; the
\* polynomial kinds keep the eased progress within 0..1; every kind that is
\* not an easing kind leaves the progress as it is
C31_EasingWithinUnitInterval ==
    calc.f = "apply_easing" =>
        LET e == calc.out
            last == calc.frame_count - 1
        IN  /\ calc.i = 0 => e.num = 0
            /\ calc.i = last => e.num = e.den
            /\ calc.kind \in {"EaseIn", "EaseOut", "EaseInOut", "Bounce", "Accelerated"}
                  => 0 <= e.num /\ e.num <= e.den
            /\ calc.kind \notin {"EaseIn", "EaseOut", "EaseInOut", "Bounce", "Accelerated",
                                "Elastic"}
                  => e.num * last = calc.i * e.den

\* task t requests a lock that a guard of task u keeps it from
WaitsFor(t, u) ==
    /\ t # u
    /\ Instr(t).op = "acq"
    /\ \E g \in held[u] :
        g.lock = Instr(t).lock /\ (g.mode = "w" \/ Instr(t).mode = "w")

\* every task of the set waits for a lock held by another task of the set:
\* none of them can ever go on
Deadlocked(S) == S # {} /\ \A t \in S : \E u \in S : WaitsFor(t, u)

\* C32: the tasks never deadlock on the locks of config, state, current_index
\* and images: at no time is there a set of tasks each of which waits for a
\* lock that another task of the set holds
C32_NoLockDeadlock == \A S \in SUBSET Tasks : ~Deadlocked(S)

\* C33: whenever the playlist holds an image (and no writer is in the middle
\* of replacing it), current_index is a position of the playlist, so that
\* images.get(current_index) finds an image
C33_IndexWithinPlaylist ==
    (imagesLock = "free" /\ images # <<>>) =>
        /\ current_index < Len(images)
        /\ CurrentImage(current_index, images) # {}

\* C34: the state is Playing or Paused only while the playlist holds an image
\* (a playlist a writer is in the middle of replacing is not looked at)
C34_NoPlaybackOnEmptyPlaylist ==
    (imagesLock = "free" /\ h_pc # "upd" /\ images = <<>>) => state = "Stopped"

\* the frame loop's iteration finds the orientation changed and goes on to
\* advance_to_next_image
AdvanceOnOrientationChange ==
    /\ f_pc = "top" /\ f_pc' = "advance"
    /\ current_orientation # config.orientation

\* C35: the iteration of the frame loop that detects a change of the
\* orientation advances only if display_duration has elapsed since the last
\* advance, for every display_duration
C35_OrientationChangeKeepsIndex ==
    [][AdvanceOnOrientationChange => sinceAdvance >= config.display_duration]_vars

\* C36: once the controller runs, display_duration, orientation and
\* transition_effect change only when an UpdateConfig command that carries the
\* field is applied; no step of the periodic task changes them
C36_ConfigSetOnlyByUpdateConfig ==
    [][phase = "running" =>
        /\ config'.display_duration # config.display_duration
              => Takes("UpdateConfig") /\ cur'.payload.display_duration # {}
        /\ config'.orientation # config.orientation
              => Takes("UpdateConfig") /\ cur'.payload.orientation # {}
        /\ config'.transition_effect # config.transition_effect
              => Takes("UpdateConfig") /\ cur'.payload.transition_effect # {}]_vars

\* C37: every command a transport sent on the command channel is handed to
\* the command handler: the handler's receiver skips none, whether more than
\* the capacity of the channel are pending or the command was sent before the
\* handler was started
C37_NoAcceptedCommandLost ==
    /\ chan.missed = 0
    /\ chan.pc = "running" => chan.applied + (chan.sent - chan.next) = chan.sent

\* C38: every status sent agrees with one instant the shared state went
\* through during the emission: total_images is that instant's playlist
\* length, current_index its index, current_image the id of its entry at that
\* index, and current_image is null only if its playlist is empty
C38_StatusOfOneInstant ==
    stat.pc = "sent" =>
        \E s \in stat.instants : \A b \in stat.body :
            /\ b.total_images = Len(s.images)
            /\ b.current_index = s.current_index
            /\ b.current_image = CurrentImage(s.current_index, s.images)
            /\ b.current_image = {} => s.images = <<>>

\* C39: every canvas the controlled frame loop hands to the device sink, the
\* composition of an image and the placeholder of an empty playlist alike,
\* in both orientations, has exactly the sink's width and height, so that
\* image_to_bgra_buffer neither crops nor pads a pixel
C39_PushedCanvasIsSinkSize ==
    calc.f = "display_image" =>
        /\ calc.image = Canvas(calc.width, calc.height)
        /\ ~calc.padded
        /\ ~calc.cropped

\* the standalone loop ends a display time with this step
EndsDisplayTime ==
    show.mode = "standalone" /\ show.pc = "events" /\ show'.pc = "load"

\* C40: in standalone mode current_index, the transition's source index and
\* its target index are always positions of the image list, which stays
\* sorted; a display time during which no image was added is followed by
\* the next image in sorted order, the first one after the last; a display
\* time during which images were added is followed by the image added last,
\* at its position in the sorted list
C40_StandaloneOrder ==
    [][(show'.mode = "standalone" /\ show'.pc # "returned") =>
          /\ show'.current_index \in 0..(Len(show'.images) - 1)
          /\ \A i, j \in DOMAIN show'.images : i < j => show'.images[i] < show'.images[j]
          /\ EndsDisplayTime =>
                LET n == Len(show.images)
                    here == Position(show.images, TheOne(show.current_image_path))
                    target == show.images[show'.current_index + 1]
                IN  /\ here # {}
                    /\ actual_current_idx(show) = TheOne(here)
                    /\ actual_current_idx(show) \in 0..(n - 1)
                    /\ next_idx(show) \in 0..(n - 1)
                    /\ show'.current_index = next_idx(show)
                    /\ show'.images = show.images
                    /\ IF show.added = {}
                       THEN show'.current_index = (TheOne(here) + 1) % n
                       ELSE target = TheOne(show.added)
                    /\ Len(show'.shown) > Len(show.shown) =>
                          show'.shown[Len(show'.shown)] =
                              [image |-> target, by |-> "play_transition"]]_vars

\* two images were added during one display time, the one added last is not
\* the next in sorted order, and the transition has shown it
C40_Witness ==
    /\ show.mode = "standalone" /\ show.pc = "load"
    /\ show.added # {}
    /\ Len(show.images) = 3
    /\ Len(show.shown) = 2
    /\ show.shown[1].by = "display_image"
    /\ show.shown[2] = [image |-> TheOne(show.added), by |-> "play_transition"]
    /\ show.images[show.current_index + 1] = TheOne(show.added)
    /\ LET first == TheOne(Position(show.images, show.shown[1].image))
       IN  show.current_index # (first + 1) % Len(show.images)

====
